---- MODULE Spec2Model ----
(***************************************************************************)
(* A model of the domain-analysis engine of dropemail-net                  *)
(* (src/src/app/api/domain/route.ts).                                      *)
(*                                                                         *)
(* The module holds several specifications, one per component:             *)
(*   SpecProbe / FairProbe   smtpStarttlsProbe, one SMTP session           *)
(*   SpecStarttls            checkStarttls, the loop over MX hosts and     *)
(*                           ports                                         *)
(*   SpecValidate            POST, the request body against BodySchema     *)
(*   SpecPost / FairPost     POST, from the request to the response        *)
(*   SpecNet / FairNet       one network operation and its wrappers        *)
(* Each specification leaves the variables of the other components at      *)
(* their idle values.                                                      *)
(***************************************************************************)
EXTENDS Integers, Sequences, FiniteSets, TLC

VARIABLES
    \* ---- the module-level cache ----
    \* ---- two analyses that share the cache ----
    analyses,    \* per analysis: where it is, what it read, what it reports
    theKey,      \* the kind of key both look up: "a", "geo", "rbl"
    produced,    \* history: the values the lookups for the key produced
    writes,      \* history: the setCached calls made for the key, in order
    \* ---- one call of mapLimit ----
    items,       \* the `items` argument
    limit,       \* the `limit` argument
    idx,         \* the shared index counter
    workers,     \* the workers: where each is, its item, its listings so far
    results,     \* the `results` array
    invoked,     \* history: per item, how often fn was invoked on it
    lost,        \* DNS queries whose timer fired and that are still outstanding
    mlPc,        \* "idle", "spawning", "running", "returned"
    cache,       \* the Map: key -> { expiresAt, value }
    now,         \* Date.now()
    cacheLog,    \* history: per key, the last setCached call (value, at, ttl)
    cacheRet,    \* the last call made on the cache and what it returned
    \* ---- one call of a function of the analysis ----
    fnArgs,      \* the arguments of the call
    fnResult,    \* what the call returned
    fnPc,        \* "idle", "called", "returned"
    \* ---- one network operation of the analysis ----
    netCall,     \* the call site that issued it
    netPc,       \* "idle", "inflight", "delay" (retry back-off), "settled"
    netAttempt,  \* the i of retryOperation's loop
    netTimer,    \* TRUE while a timer is racing the operation
    netLog,      \* history: how the attempts made so far ended
    netResult,   \* what the caller got: "none", "ok", "failed"
    netWaits,    \* history: the delays of retryOperation waited so far, in ms
    lastErr,     \* retryOperation's lastErr: "none", "error", "timeout"
    \* ---- POST /api/domain ----
    request,     \* the request: whether its body is JSON, and the parsed body
    locals,      \* POST's constants: domain, headerFrom, ..., ports, stopAfter
    postPc,      \* "idle", "resolving", "blacklists", "starttls", "responded"
    lookups,     \* history: how each of the eight parallel resolvers ended
    sections,    \* the sections of the report computed so far
    response,    \* the response returned: status and body
    started,     \* history: the network stages started for the request
    \* ---- checkStarttls ----
    mxRecords,   \* mx.records of the report, ascending by priority
    csMtasts,    \* the mtasts argument: foundPolicy, policy.mode
    csOpts,      \* opts: quickTest, compelTls, directTls, ports, stopAfter
    csPc,        \* "idle", "probing" (awaiting a probe), "stuck", "returned"
    csI,         \* index of the target of the running probe
    csJ,         \* index of the port of the running probe
    checks,      \* the `checks` array
    calls,       \* history: the smtpStarttlsProbe calls made, in order
    \* ---- smtpStarttlsProbe (one session) ----
    opts,        \* options of the call: compelTls, directTls, stopAfter
    pc,          \* where the probe's control is waiting
    result,      \* the `result` object the probe fills in
    transcript,  \* the `transcript` array (push)
    buffer,      \* buffer.data, as the lines received and not yet consumed
    timer,       \* TRUE while the timer of an `until` call is armed
    closed,      \* closeAll()'s flag / the connection is destroyed
    errArmed,    \* the once('error') handler is still registered
    resolved,    \* the promise returned by the probe
    wire         \* history: commands written and replies matched, in order

probeVars == <<opts, pc, result, transcript, buffer, timer, closed, errArmed,
               resolved, wire>>

csVars == <<mxRecords, csMtasts, csOpts, csPc, csI, csJ, checks, calls>>

postVars == <<request, locals, postPc, lookups, sections, response, started>>

netVars == <<netCall, netPc, netAttempt, netTimer, netLog, netResult, netWaits, lastErr>>

fnVars == <<fnArgs, fnResult, fnPc>>

cacheVars == <<cache, now, cacheLog, cacheRet>>

poolVars == <<items, limit, idx, workers, results, invoked, lost, mlPc>>

anVars == <<analyses, theKey, produced, writes>>

vars == <<probeVars, csVars, postVars, netVars, fnVars, cacheVars, poolVars, anVars>>

nonProbeVars == <<csVars, postVars, netVars, fnVars, cacheVars, poolVars, anVars>>
nonCsVars == <<probeVars, postVars, netVars, fnVars, cacheVars, poolVars, anVars>>
nonPostVars == <<probeVars, netVars, fnVars, cacheVars, poolVars, anVars>>
nonNetVars == <<probeVars, csVars, postVars, fnVars, cacheVars, poolVars, anVars>>
nonFnVars == <<probeVars, csVars, postVars, netVars, cacheVars, poolVars, anVars>>
nonCacheVars == <<probeVars, csVars, postVars, netVars, fnVars, poolVars, anVars>>

Undefined == "undefined"

(***************************************************************************)
(* Bounds of the model.                                                    *)
(***************************************************************************)
\* most lines the receive buffer holds before the server stops sending
MaxBuf == 3
\* most MX records of a report
MaxMx == 4
\* most ports of a request in the model (the schema allows 3)
MaxPorts == 2
\* longest domain string of a request
MaxDomainLen == 4
\* longest name given to simulateDmarc
MaxNameLen == 5

\* the empty object {}
Empty == [k \in {} |-> TRUE]

\* a field is present in an object
Has(e, f) == f \in DOMAIN e

NoResponse == [status |-> 0, body |-> Empty]

\* const cache = new Map(), no call made on it
CacheIdle ==
    /\ cache = [k \in {} |-> TRUE]
    /\ now = 0
    /\ cacheLog = [k \in {} |-> TRUE]
    /\ cacheRet = [op |-> "none"]

\* no call of mapLimit
PoolIdle ==
    /\ items = <<>>
    /\ limit = 0
    /\ idx = 0
    /\ workers = <<>>
    /\ results = <<>>
    /\ invoked = <<>>
    /\ lost = 0
    /\ mlPc = "idle"

\* no analysis
AnIdle ==
    /\ analyses = <<>>
    /\ theKey = "none"
    /\ produced = {}
    /\ writes = <<>>

FnIdle ==
    /\ fnArgs = [k \in {} |-> TRUE]
    /\ fnResult = [k \in {} |-> TRUE]
    /\ fnPc = "idle"

NetIdle ==
    /\ netCall = "none"
    /\ netPc = "idle"
    /\ netAttempt = 0
    /\ netTimer = FALSE
    /\ netLog = <<>>
    /\ netResult = "none"
    /\ netWaits = <<>>
    /\ lastErr = "none"

PostIdle ==
    /\ request = [json |-> FALSE, body |-> Empty]
    /\ locals = Empty
    /\ postPc = "idle"
    /\ lookups = Empty
    /\ sections = Empty
    /\ response = NoResponse
    /\ started = {}

CsIdle ==
    /\ mxRecords = <<>>
    /\ csMtasts = [foundPolicy |-> FALSE, mode |-> Undefined]
    /\ csOpts = [quickTest |-> FALSE, compelTls |-> FALSE, directTls |-> FALSE,
                 ports |-> <<>>, stopAfter |-> Undefined]
    /\ csPc = "idle"
    /\ csI = 0
    /\ csJ = 0
    /\ checks = <<>>
    /\ calls = <<>>

(***************************************************************************)
(* The SMTP server's vocabulary: reply lines, and the chunks in which they *)
(* reach the socket's 'data' callback.                                     *)
(***************************************************************************)
L220Greet == "220 mx.example ESMTP"
L220Ready == "220 2.0.0 Ready to start TLS"
L220Go    == "220 2.0.0 go ahead"
L250Host  == "250-mx.example"
L250Tls   == "250-STARTTLS"
L250Ok    == "250 OK"
L554      == "554 5.7.1 rejected"

Lines == {L220Greet, L220Ready, L220Go, L250Host, L250Tls, L250Ok, L554}

\* the three-digit code a line starts with
LineCode(l) ==
    CASE l \in {L220Greet, L220Ready, L220Go} -> "220"
      [] l \in {L250Host, L250Tls, L250Ok}    -> "250"
      [] OTHER                                -> "554"

Chunks ==
    { <<L220Greet>>, <<L220Ready>>, <<L220Go>>, <<L554>>, <<L250Ok>>,
      <<L250Host>>, <<L250Tls, L250Ok>>,
      <<L250Host, L250Ok>>, <<L250Host, L250Tls, L250Ok>> }

\* /STARTTLS/i.test(text)
HasStarttlsWord(text) == \E i \in 1..Len(text) : text[i] = L250Tls

\* /^220\b/m and /^250[ -]/m and /^250\b/m: some line of the buffer starts
\* with the code (the m flag lets ^ match at every line start)
MatchesAnyLine(buf, code) == \E i \in 1..Len(buf) : LineCode(buf[i]) = code

\* /^220\b.*(Start TLS|ready to start tls)/i has no m flag: ^ is the start of
\* the buffer, and . does not cross a line end
MatchesStarttlsReady(buf) == Len(buf) > 0 /\ buf[1] = L220Ready

\* the pattern each `until` call waits for
Pattern(p, buf) ==
    CASE p = "banner"    -> MatchesAnyLine(buf, "220")
      [] p = "ehlo1"     -> MatchesAnyLine(buf, "250")
      [] p = "starttls"  -> MatchesStarttlsReady(buf)
      [] p = "ehlo2"     -> MatchesAnyLine(buf, "250")
      [] p = "mailfrom"  -> MatchesAnyLine(buf, "250")
      [] p = "dehlo"     -> MatchesAnyLine(buf, "250")
      [] p = "dmailfrom" -> MatchesAnyLine(buf, "250")
      [] OTHER           -> FALSE

(***************************************************************************)
(* TLS sessions a handshake can end in: getProtocol(), getCipher().name,   *)
(* authorized.                                                             *)
(***************************************************************************)
TlsSessions ==
    { [protocol |-> "TLSv1.3", cipher |-> "TLS_AES_256_GCM_SHA384", authorized |-> TRUE],
      [protocol |-> "TLSv1.2", cipher |-> "ECDHE-RSA-AES128-GCM-SHA256", authorized |-> TRUE],
      [protocol |-> "TLSv1", cipher |-> "DHE-RSA-AES256-SHA", authorized |-> FALSE] }

\* cipher.toUpperCase().includes('ECDHE') || ....includes('DHE')
Pfs(cipher) == cipher \in {"ECDHE-RSA-AES128-GCM-SHA256", "DHE-RSA-AES256-SHA"}

\* v.includes('TLSV1.3') || v.includes('TLSV1.2')
Modern(protocol) == protocol \in {"TLSv1.3", "TLSv1.2"}

(***************************************************************************)
(* smtpStarttlsProbe                                                       *)
(***************************************************************************)
StopAfterValues ==
    {"ANSWER", "CONNECT", "EHLO1", "STARTTLS", "EHLO2", "MAILFROM", "RCPTTO", "DATA"}

ProbeOptions ==
    [compelTls : BOOLEAN, directTls : BOOLEAN,
     stopAfter : {Undefined, "CONNECT", "EHLO1", "STARTTLS", "EHLO2", "MAILFROM"}]

InitialResult ==
    [connectOk |-> FALSE, heloOk |-> FALSE, starttlsSupported |-> FALSE,
     tlsEstablished |-> FALSE, certAuthorized |-> FALSE, secureOk |-> FALSE,
     mailFromOk |-> FALSE, tlsProtocol |-> Undefined, cipher |-> Undefined]

Pending == [state |-> "pending"]

\* resolve({ ...result, timings, transcript }): the first call settles the
\* promise with a copy of the fields; later calls do nothing
Resolve(r) ==
    IF resolved.state = "pending" THEN [state |-> "resolved", result |-> r]
    ELSE resolved

\* An entry of the history, and of the transcript, names what was written or
\* which reply was matched (banner, ehloResp, ready, ehlo2, mfrom), not the
\* text of the reply: the text is in `buffer` when the reply is matched
Sent(secure, cmd)  == [dir |-> "send", secure |-> secure, body |-> cmd]
Recvd(secure, rep) == [dir |-> "recv", secure |-> secure, body |-> rep]

\* push(`<pfx> ${text}`)
Entry(pfx, body) == [pfx |-> pfx, body |-> body]

\* a handler that copies the session's fields and leaves tlsEstablished
WithSession_FlagLeft(r, s) ==
    [r EXCEPT !.tlsProtocol = s.protocol,
              !.cipher = s.cipher,
              !.certAuthorized = s.authorized,
              !.secureOk = Pfs(s.cipher) /\ Modern(s.protocol)]

\* the fields the secureConnect handlers copy from the TLS session
WithSession(r, s) ==
    [r EXCEPT !.tlsEstablished = TRUE,
              !.tlsProtocol = s.protocol,
              !.cipher = s.cipher,
              !.certAuthorized = s.authorized,
              !.secureOk = Pfs(s.cipher) /\ Modern(s.protocol)]

\* (mutant) the early return taken without looking at compelTls
StopForNoStarttls_IgnoringCompel(r, o) == ~r.starttlsSupported

\* if (!result.starttlsSupported && !options?.compelTls) { ...resolve; return }
StopForNoStarttls(r, o) == ~r.starttlsSupported /\ ~o.compelTls

\* if (options?.stopAfter === 'STARTTLS') after the handshake
StopAfterHandshake(o) == o.stopAfter = "STARTTLS"

\* if (options?.stopAfter === 'EHLO2') after the post-TLS EHLO reply
StopAfterEhlo2(o) == o.stopAfter = "EHLO2"

InitProbe(o) ==
    /\ opts = o
    /\ pc = IF o.directTls THEN "dtcp" ELSE "tcp"
    /\ result = InitialResult
    /\ transcript = <<>>
    /\ buffer = <<>>
    /\ timer = FALSE
    /\ closed = FALSE
    /\ errArmed = TRUE
    /\ resolved = Pending
    /\ wire = <<>>

\* socket 'connect': onConnectPlain starts and waits for the greeting
onConnectPlain ==
    /\ pc = "tcp" /\ ~closed
    /\ pc' = "banner"
    /\ timer' = TRUE
    /\ UNCHANGED <<opts, result, transcript, buffer, closed, errArmed, resolved, wire>>
    /\ UNCHANGED nonProbeVars

\* socket 'error' (plain mode): onError = closeAll(); resolve(...)
onError ==
    /\ ~opts.directTls /\ errArmed /\ ~closed
    /\ pc \in {"tcp", "banner", "ehlo1", "starttls"}
    /\ errArmed' = FALSE
    /\ closed' = TRUE
    /\ resolved' = Resolve(result)
    /\ pc' = IF pc = "tcp" THEN "end" ELSE pc
    /\ UNCHANGED <<opts, result, transcript, buffer, timer, wire>>
    /\ UNCHANGED nonProbeVars

\* the 'data' listener of `until` while the pattern does not match yet
onDataNoMatch(chunk) ==
    /\ timer /\ ~closed
    /\ Len(buffer) + Len(chunk) <= MaxBuf
    /\ ~Pattern(pc, buffer \o chunk)
    /\ buffer' = buffer \o chunk
    /\ UNCHANGED <<opts, pc, result, transcript, timer, closed, errArmed, resolved, wire>>
    /\ UNCHANGED nonProbeVars

\* greeting matched: connectOk, EHLO written, wait for 250
onBanner(chunk) ==
    /\ pc = "banner" /\ timer /\ ~closed
    /\ Len(buffer) + Len(chunk) <= MaxBuf
    /\ Pattern("banner", buffer \o chunk)
    /\ LET out == buffer \o chunk IN
         /\ transcript' = transcript \o
                <<Entry("<--", "banner"), Entry("-->", "EHLO")>>
         /\ wire' = wire \o <<Recvd(FALSE, "banner"), Sent(FALSE, "EHLO")>>
    /\ result' = [result EXCEPT !.connectOk = TRUE]
    /\ buffer' = <<>>
    /\ pc' = "ehlo1"
    /\ UNCHANGED <<opts, timer, closed, errArmed, resolved>>
    /\ UNCHANGED nonProbeVars

\* EHLO reply matched: heloOk, starttlsSupported; stop, or write STARTTLS
onEhlo1(chunk) ==
    /\ pc = "ehlo1" /\ timer /\ ~closed
    /\ Len(buffer) + Len(chunk) <= MaxBuf
    /\ Pattern("ehlo1", buffer \o chunk)
    /\ LET out == buffer \o chunk
           r   == [result EXCEPT !.heloOk = TRUE,
                                 !.starttlsSupported = HasStarttlsWord(out)]
       IN  /\ result' = r
           /\ buffer' = <<>>
           /\ IF StopForNoStarttls(r, opts)
              THEN /\ transcript' = Append(transcript, Entry("<--", "ehloResp"))
                   /\ wire' = Append(wire, Recvd(FALSE, "ehloResp"))
                   /\ closed' = TRUE
                   /\ resolved' = Resolve(r)
                   /\ timer' = FALSE
                   /\ pc' = "end"
              ELSE /\ transcript' = transcript \o
                          <<Entry("<--", "ehloResp"), Entry("-->", "STARTTLS")>>
                   /\ wire' = wire \o <<Recvd(FALSE, "ehloResp"), Sent(FALSE, "STARTTLS")>>
                   /\ pc' = "starttls"
                   /\ UNCHANGED <<closed, resolved, timer>>
    /\ UNCHANGED <<opts, errArmed>>
    /\ UNCHANGED nonProbeVars

\* 220 ready matched: tls.connect({ socket }) starts the handshake
onStarttlsReady(chunk) ==
    /\ pc = "starttls" /\ timer /\ ~closed
    /\ Len(buffer) + Len(chunk) <= MaxBuf
    /\ Pattern("starttls", buffer \o chunk)
    /\ transcript' = Append(transcript, Entry("<--", "ready"))
    /\ wire' = Append(wire, Recvd(FALSE, "ready"))
    /\ buffer' = <<>>
    /\ timer' = FALSE
    /\ errArmed' = TRUE
    /\ pc' = "handshake"
    /\ UNCHANGED <<opts, result, closed, resolved>>
    /\ UNCHANGED nonProbeVars

\* secure 'error' (plain mode): secure.destroy(); closeAll(); resolve(...)
secureErrorPlain ==
    /\ ~opts.directTls /\ errArmed /\ ~closed
    /\ pc \in {"handshake", "ehlo2", "mailfrom"}
    /\ errArmed' = FALSE
    /\ closed' = TRUE
    /\ resolved' = Resolve(result)
    /\ pc' = IF pc = "handshake" THEN "end" ELSE pc
    /\ UNCHANGED <<opts, result, transcript, buffer, timer, wire>>
    /\ UNCHANGED nonProbeVars

\* secure 'secureConnect' (plain mode)
secureConnectPlain(s) ==
    /\ pc = "handshake" /\ ~closed
    /\ LET r == WithSession(result, s) IN
         /\ result' = r
         /\ IF StopAfterHandshake(opts)
            THEN /\ closed' = TRUE
                 /\ resolved' = Resolve(r)
                 /\ pc' = "end"
                 /\ UNCHANGED <<transcript, wire, timer>>
            ELSE /\ transcript' = Append(transcript, Entry("~~>", "EHLO"))
                 /\ wire' = Append(wire, Sent(TRUE, "EHLO"))
                 /\ timer' = TRUE
                 /\ pc' = "ehlo2"
                 /\ UNCHANGED <<closed, resolved>>
    /\ UNCHANGED <<opts, buffer, errArmed>>
    /\ UNCHANGED nonProbeVars

\* post-TLS EHLO reply matched: stop, or write MAIL FROM
onEhlo2(chunk) ==
    /\ pc = "ehlo2" /\ timer /\ ~closed
    /\ Len(buffer) + Len(chunk) <= MaxBuf
    /\ Pattern("ehlo2", buffer \o chunk)
    /\ IF StopAfterEhlo2(opts)
         THEN /\ transcript' = Append(transcript, Entry("<~~", "ehlo2"))
              /\ wire' = Append(wire, Recvd(TRUE, "ehlo2"))
              /\ closed' = TRUE
              /\ resolved' = Resolve(result)
              /\ timer' = FALSE
              /\ pc' = "end"
         ELSE /\ transcript' = transcript \o
                     <<Entry("<~~", "ehlo2"), Entry("~~>", "MAIL FROM")>>
              /\ wire' = wire \o <<Recvd(TRUE, "ehlo2"), Sent(TRUE, "MAIL FROM")>>
              /\ pc' = "mailfrom"
              /\ UNCHANGED <<closed, resolved, timer>>
    /\ buffer' = <<>>
    /\ UNCHANGED <<opts, result, errArmed>>
    /\ UNCHANGED nonProbeVars

\* MAIL FROM reply matched: mailFromOk, then secure.end(); closeAll(); resolve
onMailFrom(chunk) ==
    /\ pc = "mailfrom" /\ timer /\ ~closed
    /\ Len(buffer) + Len(chunk) <= MaxBuf
    /\ Pattern("mailfrom", buffer \o chunk)
    /\ LET r == [result EXCEPT !.mailFromOk = TRUE]
       IN  /\ transcript' = Append(transcript, Entry("<~~", "mfrom"))
           /\ wire' = Append(wire, Recvd(TRUE, "mfrom"))
           /\ result' = r
           /\ resolved' = Resolve(r)
    /\ buffer' = <<>>
    /\ timer' = FALSE
    /\ closed' = TRUE
    /\ pc' = "end"
    /\ UNCHANGED <<opts, errArmed>>
    /\ UNCHANGED nonProbeVars

\* the timer of `until` fires in plain mode: the await throws into the
\* enclosing catch, which ends with closeAll(); resolve(...)
untilTimeoutPlain ==
    /\ timer /\ pc \in {"banner", "ehlo1", "starttls", "ehlo2", "mailfrom"}
    /\ timer' = FALSE
    /\ closed' = TRUE
    /\ resolved' = Resolve(result)
    /\ pc' = "end"
    /\ UNCHANGED <<opts, result, transcript, buffer, errArmed, wire>>
    /\ UNCHANGED nonProbeVars

\* tls.connect({ host, port }) in direct mode: the TCP connection is up and
\* the TLS handshake starts
directTcpConnected ==
    /\ pc = "dtcp" /\ ~closed
    /\ pc' = "dhandshake"
    /\ UNCHANGED <<opts, result, transcript, buffer, timer, closed, errArmed, resolved, wire>>
    /\ UNCHANGED nonProbeVars

\* secure 'error' (direct mode): secure.destroy(); resolve(...)
secureErrorDirect ==
    /\ opts.directTls /\ errArmed /\ ~closed
    /\ pc \in {"dtcp", "dhandshake", "dehlo", "dmailfrom", "unhandled"}
    /\ errArmed' = FALSE
    /\ closed' = TRUE
    /\ resolved' = Resolve(result)
    /\ pc' = IF pc \in {"dtcp", "dhandshake", "unhandled"} THEN "end" ELSE pc
    /\ UNCHANGED <<opts, result, transcript, buffer, timer, wire>>
    /\ UNCHANGED nonProbeVars

\* secure 'secureConnect' (direct mode): session fields, EHLO written
secureConnectDirect(s) ==
    /\ pc = "dhandshake" /\ ~closed
    /\ result' = WithSession([result EXCEPT !.connectOk = TRUE], s)
    /\ wire' = Append(wire, Sent(TRUE, "EHLO"))
    /\ timer' = TRUE
    /\ pc' = "dehlo"
    /\ UNCHANGED <<opts, transcript, buffer, closed, errArmed, resolved>>
    /\ UNCHANGED nonProbeVars

\* EHLO reply matched (direct mode): heloOk; stop, or write MAIL FROM
onDirectEhlo(chunk) ==
    /\ pc = "dehlo" /\ timer /\ ~closed
    /\ Len(buffer) + Len(chunk) <= MaxBuf
    /\ Pattern("dehlo", buffer \o chunk)
    /\ LET r == [result EXCEPT !.heloOk = TRUE]
       IN  /\ result' = r
           /\ IF StopAfterEhlo2(opts)
              THEN /\ wire' = Append(wire, Recvd(TRUE, "ehlo2"))
                   /\ resolved' = Resolve(r)
                   /\ closed' = TRUE
                   /\ timer' = FALSE
                   /\ pc' = "end"
              ELSE /\ wire' = wire \o <<Recvd(TRUE, "ehlo2"), Sent(TRUE, "MAIL FROM")>>
                   /\ pc' = "dmailfrom"
                   /\ UNCHANGED <<resolved, closed, timer>>
    /\ buffer' = <<>>
    /\ UNCHANGED <<opts, transcript, errArmed>>
    /\ UNCHANGED nonProbeVars

\* MAIL FROM reply matched (direct mode)
onDirectMailFrom(chunk) ==
    /\ pc = "dmailfrom" /\ timer /\ ~closed
    /\ Len(buffer) + Len(chunk) <= MaxBuf
    /\ Pattern("dmailfrom", buffer \o chunk)
    /\ LET r == [result EXCEPT !.mailFromOk = TRUE]
       IN  /\ wire' = Append(wire, Recvd(TRUE, "mfrom"))
           /\ result' = r
           /\ resolved' = Resolve(r)
    /\ buffer' = <<>>
    /\ timer' = FALSE
    /\ closed' = TRUE
    /\ pc' = "end"
    /\ UNCHANGED <<opts, transcript, errArmed>>
    /\ UNCHANGED nonProbeVars

\* the timer of the EHLO `until` fires in direct mode: the await is in no
\* try block, so the async secureConnect listener rejects and nothing calls
\* resolve
untilTimeoutDirectEhlo ==
    /\ timer /\ pc = "dehlo"
    /\ timer' = FALSE
    /\ pc' = "unhandled"
    /\ UNCHANGED <<opts, result, transcript, buffer, closed, errArmed, resolved, wire>>
    /\ UNCHANGED nonProbeVars

\* the timer of the MAIL FROM `until` fires in direct mode: caught, then
\* secure.end(); resolve(...)
untilTimeoutDirectMailFrom ==
    /\ timer /\ pc = "dmailfrom"
    /\ timer' = FALSE
    /\ closed' = TRUE
    /\ resolved' = Resolve(result)
    /\ pc' = "end"
    /\ UNCHANGED <<opts, result, transcript, buffer, errArmed, wire>>
    /\ UNCHANGED nonProbeVars

ProbeIdle ==
    /\ opts = [compelTls |-> FALSE, directTls |-> FALSE, stopAfter |-> Undefined]
    /\ pc = "idle"
    /\ result = InitialResult
    /\ transcript = <<>>
    /\ buffer = <<>>
    /\ timer = FALSE
    /\ closed = FALSE
    /\ errArmed = FALSE
    /\ resolved = Pending
    /\ wire = <<>>

\* what the operating system guarantees of a TCP connection attempt: it ends,
\* in 'connect' or in 'error'
tcpOutcome ==
    \/ onConnectPlain
    \/ pc = "tcp" /\ onError
    \/ directTcpConnected
    \/ pc = "dtcp" /\ secureErrorDirect

untilTimeout ==
    untilTimeoutPlain \/ untilTimeoutDirectEhlo \/ untilTimeoutDirectMailFrom

InitSpecProbe == CsIdle /\ PostIdle /\ NetIdle /\ FnIdle /\ CacheIdle /\ PoolIdle /\ AnIdle /\ \E o \in ProbeOptions : InitProbe(o)

NextProbe ==
    \/ onConnectPlain
    \/ onError
    \/ \E c \in Chunks : onDataNoMatch(c)
    \/ \E c \in Chunks : onBanner(c)
    \/ \E c \in Chunks : onEhlo1(c)
    \/ \E c \in Chunks : onStarttlsReady(c)
    \/ secureErrorPlain
    \/ \E s \in TlsSessions : secureConnectPlain(s)
    \/ \E c \in Chunks : onEhlo2(c)
    \/ \E c \in Chunks : onMailFrom(c)
    \/ untilTimeoutPlain
    \/ directTcpConnected
    \/ secureErrorDirect
    \/ \E s \in TlsSessions : secureConnectDirect(s)
    \/ \E c \in Chunks : onDirectEhlo(c)
    \/ \E c \in Chunks : onDirectMailFrom(c)
    \/ untilTimeoutDirectEhlo
    \/ untilTimeoutDirectMailFrom

SpecProbe == InitSpecProbe /\ [][NextProbe]_vars

\* timers fire and TCP connection attempts end; the server owes nothing
FairProbe ==
    /\ InitSpecProbe /\ [][NextProbe]_vars
    /\ WF_vars(untilTimeout)
    /\ WF_vars(tcpOutcome)

(***************************************************************************)
(* Properties of smtpStarttlsProbe (SpecProbe).                            *)
(***************************************************************************)
IsSend(e, secure, cmd) == e.dir = "send" /\ e.secure = secure /\ e.body = cmd

Wrote(secure, cmd) == \E i \in 1..Len(wire) : IsSend(wire[i], secure, cmd)

\* C1: in both entry modes the probe cannot be left pending forever: while
\* its promise is pending, either a connection attempt is in progress (which
\* the operating system ends) or the timer of an `until` call is armed, so
\* that silence of the server at any stage leads to resolve().
C1_PendingHasTimer ==
    resolved.state = "pending" => (timer \/ pc \in {"tcp", "dtcp"})

\* the transcript prefix of a history entry
Prefix(e) ==
    CASE e.dir = "send" /\ ~e.secure -> "-->"
      [] e.dir = "recv" /\ ~e.secure -> "<--"
      [] e.dir = "send" /\ e.secure  -> "~~>"
      [] OTHER                       -> "<~~"

\* C5: in every probe run, in both entry modes, the transcript holds one
\* entry for every command written and every reply matched, in wire order,
\* prefixed --> / <-- before the TLS upgrade and ~~> / <~~ after it.
C5_TranscriptIsWire ==
    transcript = [i \in 1..Len(wire) |-> Entry(Prefix(wire[i]), wire[i].body)]

\* the stage a written command belongs to, in the order of the sequence
\* CONNECT < EHLO1 < STARTTLS < EHLO2 < MAILFROM
StageRank(stage) ==
    CASE stage = "CONNECT"  -> 1
      [] stage = "EHLO1"    -> 2
      [] stage = "STARTTLS" -> 3
      [] stage = "EHLO2"    -> 4
      [] OTHER              -> 5

CommandStage(e) ==
    CASE e.body = "EHLO" /\ ~e.secure -> "EHLO1"
      [] e.body = "STARTTLS"          -> "STARTTLS"
      [] e.body = "EHLO" /\ e.secure  -> "EHLO2"
      [] OTHER                        -> "MAILFROM"

\* C6: a plaintext-mode probe given stopAfter = CONNECT, EHLO1, STARTTLS,
\* EHLO2 or MAILFROM writes no command of a stage later than the named one.
C6_NoLaterCommand ==
    (~opts.directTls /\ opts.stopAfter # Undefined) =>
        \A i \in 1..Len(wire) :
            wire[i].dir = "send" =>
                StageRank(CommandStage(wire[i])) <= StageRank(opts.stopAfter)

\* C9: in plaintext-then-upgrade mode, once the EHLO reply is matched and it
\* does not advertise STARTTLS: with compelTls false the probe has resolved
\* with heloOk, ~starttlsSupported, ~tlsEstablished, has written no STARTTLS
\* and started no handshake; with compelTls true STARTTLS is the command
\* written right after the EHLO reply.
C9_NoStarttlsOffer ==
    (~opts.directTls /\ result.heloOk /\ ~result.starttlsSupported) =>
        IF ~opts.compelTls
        THEN /\ resolved.state = "resolved"
             /\ resolved.result.heloOk
             /\ ~resolved.result.starttlsSupported
             /\ ~resolved.result.tlsEstablished
             /\ ~Wrote(FALSE, "STARTTLS")
             /\ pc = "end"
             /\ ~result.tlsEstablished
        ELSE /\ Len(wire) >= 4
             /\ IsSend(wire[4], FALSE, "STARTTLS")

\* C9 (witness): a probe that resolved because STARTTLS was not offered
C9_Witness ==
    /\ ~opts.directTls /\ ~opts.compelTls
    /\ resolved.state = "resolved"
    /\ resolved.result.heloOk /\ ~resolved.result.starttlsSupported
    /\ wire = <<Recvd(FALSE, "banner"), Sent(FALSE, "EHLO"), Recvd(FALSE, "ehloResp")>>

\* a compelled probe that went through the whole sequence although STARTTLS
\* was not offered
CompelledRunReached ==
    /\ opts.compelTls /\ ~result.starttlsSupported /\ result.mailFromOk
    /\ resolved.state = "resolved"

(***************************************************************************)
(* The results a probe called with options o can resolve with, stage by    *)
(* stage (SpecProbe checks ProbeResultsCover).                             *)
(***************************************************************************)
ProbeResults(o) ==
    LET base == InitialResult
        conn == [base EXCEPT !.connectOk = TRUE]
        helo(sts) == [conn EXCEPT !.heloOk = TRUE, !.starttlsSupported = sts]
        mailAllowed == o.stopAfter \notin {"STARTTLS", "EHLO2"}
    IN  IF o.directTls
        THEN {base}
             \cup { r \in { [WithSession(conn, s) EXCEPT !.heloOk = hm[1],
                                                         !.mailFromOk = hm[2]] :
                              s \in TlsSessions, hm \in BOOLEAN \X BOOLEAN } :
                      r.mailFromOk => (r.heloOk /\ o.stopAfter # "EHLO2") }
        ELSE {base, conn}
             \cup { helo(sts) : sts \in BOOLEAN }
             \cup { r \in { [WithSession(helo(sm[1]), s) EXCEPT !.mailFromOk = sm[2]] :
                              s \in TlsSessions, sm \in BOOLEAN \X BOOLEAN } :
                      /\ r.starttlsSupported \/ o.compelTls
                      /\ r.mailFromOk => mailAllowed }

\* every result a probe resolves with is one of ProbeResults
ProbeResultsCover ==
    resolved.state = "resolved" => resolved.result \in ProbeResults(opts)

(***************************************************************************)
(* checkStarttls                                                           *)
(***************************************************************************)
\* the k-th MX record of a report: ascending priorities with a tie, and
\* every second host without a resolved address
MxRecord(k) ==
    [exchange |-> <<"mx", k>>, priority |-> 10 * ((k + 1) \div 2),
     addresses |-> IF k % 2 = 1 THEN << <<"192.0.2", k>> >> ELSE <<>>]

MxReports == { [k \in 1..n |-> MxRecord(k)] : n \in 0..MaxMx }

PortSamples == {25, 465, 70000}

PortLists == UNION { [1..k -> PortSamples] : k \in 1..MaxPorts }

MtastsSamples ==
    { [foundPolicy |-> FALSE, mode |-> Undefined],
      [foundPolicy |-> TRUE, mode |-> "enforce"] }

CheckOptions ==
    [quickTest : BOOLEAN, compelTls : {FALSE}, directTls : BOOLEAN,
     ports : PortLists, stopAfter : {Undefined, "EHLO1"}]

\* a checkStarttls that puts no cap on the hosts of a full run
MxLimit_Uncapped(o) == IF o.quickTest THEN 1 ELSE MaxMx

\* const mxLimit = opts.quickTest ? 1 : 3
MxLimit(o) == IF o.quickTest THEN 1 ELSE 3

\* mxRecords.slice(0, mxLimit)
Targets(recs, o) ==
    SubSeq(recs, 1, IF Len(recs) < MxLimit(o) THEN Len(recs) ELSE MxLimit(o))

\* opts.ports.length ? opts.ports : [25]
EffectivePorts(o) == IF Len(o.ports) > 0 THEN o.ports ELSE <<25>>

\* the options object checkStarttls passes to smtpStarttlsProbe
CallOptions(o, port) ==
    [compelTls |-> o.compelTls,
     directTls |-> o.directTls /\ port = 465,
     stopAfter |-> IF o.quickTest THEN "EHLO2" ELSE o.stopAfter]

Call(mx, port, o) == [host |-> mx.exchange, port |-> port, options |-> CallOptions(o, port)]

\* net.connect({ host, port }) throws ERR_SOCKET_BAD_PORT synchronously for a
\* port outside 0..65535, which rejects the probe's promise
Throws(call) == ~call.options.directTls /\ call.port >= 65536

B(x) == IF x = TRUE THEN 1 ELSE 0

\* computeTlsScore
computeTlsScore(r) ==
    20 * B(r.connectOk) + 10 * B(r.heloOk) + 15 * B(r.starttlsSupported)
    + 15 * B(r.tlsEstablished) + 15 * B(r.certAuthorized) + 10 * B(r.secureOk)
    + 15 * B(r.mailFromOk)

\* const ip = mx.addresses?.[0]
Ip(mx) == IF Len(mx.addresses) > 0 THEN mx.addresses[1] ELSE Undefined

\* const answer = ip ? `${ip}:${port}` : undefined
Answer(mx, port) == IF Len(mx.addresses) > 0 THEN <<Ip(mx), port>> ELSE Undefined

\* !!(mtasts?.foundPolicy && mtasts.policy?.mode && mtasts.policy.mode !== 'none')
MtastsOk(mt) == mt.foundPolicy /\ mt.mode # Undefined /\ mt.mode # "none"

\* checks.push({ host, ip, mxPref, answer, ...result, mtastsOk, daneOk, score, issues: [] })
ProbeEntry(mx, port, r, mt) ==
    [host |-> mx.exchange, ip |-> Ip(mx), mxPref |-> mx.priority,
     answer |-> Answer(mx, port),
     connectOk |-> r.connectOk, heloOk |-> r.heloOk,
     starttlsSupported |-> r.starttlsSupported,
     tlsEstablished |-> r.tlsEstablished, certAuthorized |-> r.certAuthorized,
     secureOk |-> r.secureOk, mailFromOk |-> r.mailFromOk,
     mtastsOk |-> MtastsOk(mt), daneOk |-> "not tested",
     score |-> computeTlsScore(r), issues |-> <<>>]

\* the entry pushed by the catch block: of the result only connectOk, and
\* neither mtastsOk nor score
CatchEntry(mx, port) ==
    [host |-> mx.exchange, ip |-> Ip(mx), mxPref |-> mx.priority,
     answer |-> Answer(mx, port),
     connectOk |-> FALSE, daneOk |-> "not tested",
     issues |-> <<[severity |-> "warning", summary |-> "SMTP connection failed"]>>]

\* if (opts.quickTest) break;
BreakAfterPort(o, entry) == o.quickTest

\* the loop position after the iteration (i, j)
NextIteration(i, j, o, entry) ==
    IF BreakAfterPort(o, entry) \/ j >= Len(EffectivePorts(o))
    THEN [i |-> i + 1, j |-> 1]
    ELSE [i |-> i, j |-> j + 1]

\* The loops from iteration (i, j) up to the next await that suspends: a call
\* that throws is caught and pushed at once; the first call that does not
\* throw leaves the function awaiting its probe; past the last target the
\* function returns.
RECURSIVE RunLoop(_, _, _, _, _, _)
RunLoop(i, j, chk, cls, recs, o) ==
    LET targets == Targets(recs, o) IN
    IF i > Len(targets)
    THEN [pc |-> "returned", i |-> i, j |-> j, checks |-> chk, calls |-> cls]
    ELSE LET mx   == targets[i]
             port == EffectivePorts(o)[j]
             call == Call(mx, port, o)
         IN  IF Throws(call)
             THEN LET e == CatchEntry(mx, port)
                      n == NextIteration(i, j, o, e)
                  IN  RunLoop(n.i, n.j, Append(chk, e), Append(cls, call), recs, o)
             ELSE [pc |-> "probing", i |-> i, j |-> j, checks |-> chk,
                   calls |-> Append(cls, call)]

\* the results of the model's servers: a refused connection, and a server
\* that cooperates as far as the options let the probe go
Refused == InitialResult

Completed(o) ==
    LET s == [protocol |-> "TLSv1.2", cipher |-> "ECDHE-RSA-AES128-GCM-SHA256",
              authorized |-> TRUE]
        r == WithSession([InitialResult EXCEPT !.connectOk = TRUE, !.heloOk = TRUE,
                                               !.starttlsSupported = ~o.directTls], s)
    IN  [r EXCEPT !.mailFromOk = o.stopAfter \notin {"STARTTLS", "EHLO2"}]

SampledResults(o) == {Refused, Completed(o)} \cap ProbeResults(o)

SetCs(st) ==
    /\ csPc' = st.pc
    /\ csI' = st.i
    /\ csJ' = st.j
    /\ checks' = st.checks
    /\ calls' = st.calls

\* checkStarttls is called: it runs up to its first await
csEnter ==
    /\ csPc = "idle"
    /\ SetCs(RunLoop(1, 1, <<>>, <<>>, mxRecords, csOpts))
    /\ UNCHANGED <<mxRecords, csMtasts, csOpts>>
    /\ UNCHANGED nonCsVars

\* the awaited probe resolves: its entry is pushed and the loops go on
csProbeResolved(r) ==
    /\ csPc = "probing"
    /\ r \in SampledResults(calls[Len(calls)].options)
    /\ LET mx   == Targets(mxRecords, csOpts)[csI]
           port == EffectivePorts(csOpts)[csJ]
           e    == ProbeEntry(mx, port, r, csMtasts)
           n    == NextIteration(csI, csJ, csOpts, e)
       IN  SetCs(RunLoop(n.i, n.j, Append(checks, e), calls, mxRecords, csOpts))
    /\ UNCHANGED <<mxRecords, csMtasts, csOpts>>
    /\ UNCHANGED nonCsVars

\* the awaited probe never resolves (see C1): checkStarttls never returns
csProbeNeverResolves ==
    /\ csPc = "probing"
    /\ csPc' = "stuck"
    /\ UNCHANGED <<mxRecords, csMtasts, csOpts, csI, csJ, checks, calls>>
    /\ UNCHANGED nonCsVars

InitSpecStarttls ==
    /\ ProbeIdle
    /\ PostIdle
    /\ NetIdle
    /\ FnIdle
    /\ CacheIdle
    /\ PoolIdle
    /\ AnIdle
    /\ mxRecords \in MxReports
    /\ csMtasts \in MtastsSamples
    /\ csOpts \in CheckOptions
    /\ csPc = "idle"
    /\ csI = 0
    /\ csJ = 0
    /\ checks = <<>>
    /\ calls = <<>>

NextStarttls ==
    \/ csEnter
    \/ \E r \in {Refused} \cup {Completed(o) : o \in ProbeOptions} : csProbeResolved(r)
    \/ csProbeNeverResolves

SpecStarttls == InitSpecStarttls /\ [][NextStarttls]_vars

(***************************************************************************)
(* Properties of checkStarttls                                             *)
(***************************************************************************)
Flag(e, f) == IF Has(e, f) /\ e[f] = TRUE THEN 1 ELSE 0

WeightedSum(e) ==
    20 * Flag(e, "connectOk") + 10 * Flag(e, "heloOk")
    + 15 * Flag(e, "starttlsSupported") + 15 * Flag(e, "tlsEstablished")
    + 15 * Flag(e, "certAuthorized") + 10 * Flag(e, "secureOk")
    + 15 * Flag(e, "mailFromOk")

\* C3: every entry of starttls.checks, whichever way its probe ended, has a
\* score, the score lies in 0..100 and it is the weighted sum of the entry's
\* own sub-checks.
C3_ScoreOfEveryEntry ==
    \A k \in 1..Len(checks) :
        /\ Has(checks[k], "score")
        /\ checks[k].score \in 0..100
        /\ checks[k].score = WeightedSum(checks[k])

\* the entries pushed for a probe that resolved do carry the weighted sum
ScoreOfResolvedProbes ==
    \A k \in 1..Len(checks) :
        Has(checks[k], "score") =>
            checks[k].score \in 0..100 /\ checks[k].score = WeightedSum(checks[k])

Succeeded(e) == e.connectOk = TRUE

\* C7: a quick test probes only the first MX host, tries the requested ports
\* in order, probes no port after a successful one, and follows a failed
\* port with the next requested port.
C7_QuickTriesPortsUntilSuccess ==
    (csOpts.quickTest /\ csPc = "returned") =>
        /\ \A k \in 1..Len(calls) :
              /\ calls[k].host = mxRecords[1].exchange
              /\ k <= Len(EffectivePorts(csOpts))
              /\ calls[k].port = EffectivePorts(csOpts)[k]
        /\ \A k \in 1..Len(checks) : Succeeded(checks[k]) => k = Len(checks)
        /\ (Len(checks) > 0 /\ ~Succeeded(checks[Len(checks)]))
              => Len(checks) = Len(EffectivePorts(csOpts))

\* what does hold of a quick test: one host, one port
QuickProbesOnePort ==
    (csOpts.quickTest /\ csPc = "returned") =>
        /\ Len(calls) = (IF Len(mxRecords) > 0 THEN 1 ELSE 0)
        /\ Len(checks) = Len(calls)

FullModeHosts == IF Len(mxRecords) < 3 THEN Len(mxRecords) ELSE 3

PortCount == Len(EffectivePorts(csOpts))

\* C8: a full-mode run probes the first min(3, n) hosts in ascending priority
\* order and every requested port of each, one session at a time, each
\* (host, requested port) once, so that on return checks has min(3, n) * |ports|
\* entries in host-then-port order.
C8_FullModeSequential ==
    ~csOpts.quickTest =>
        /\ Len(calls) - Len(checks) = (IF csPc \in {"probing", "stuck"} THEN 1 ELSE 0)
        /\ Len(calls) <= FullModeHosts * PortCount
        /\ \A k \in 1..Len(calls) :
              /\ calls[k].host = mxRecords[((k - 1) \div PortCount) + 1].exchange
              /\ calls[k].port = EffectivePorts(csOpts)[((k - 1) % PortCount) + 1]
        /\ \A k \in 1..Len(checks) :
              /\ checks[k].host = calls[k].host
              /\ k > 1 => checks[k - 1].mxPref <= checks[k].mxPref
        /\ csPc = "returned" => Len(checks) = FullModeHosts * PortCount

\* a full-mode run over more than 3 hosts and 2 ports has returned, and a
\* failed probe in it was followed by the next pair
C8_Witness ==
    /\ ~csOpts.quickTest
    /\ csPc = "returned"
    /\ Len(mxRecords) > 3
    /\ PortCount = 2
    /\ Len(checks) = 6
    /\ ~Succeeded(checks[1])
    /\ Succeeded(checks[2])
    /\ ~Has(checks[3], "score")

(***************************************************************************)
(* POST: the request body and BodySchema                                   *)
(***************************************************************************)
\* strings are sequences of characters over this alphabet
Chars == {"a", "A", "7", ".", "-", " "}

Strings(n) == UNION { [1..k -> Chars] : k \in 0..n }

IsLetter(c) == c \in {"a", "A"}

\* [a-z0-9.-] under /i
IsDomainChar(c) == IsLetter(c) \/ c \in {"7", ".", "-"}

\* String.prototype.trim
RECURSIVE TrimLeft(_)
TrimLeft(s) == IF Len(s) > 0 /\ s[1] = " " THEN TrimLeft(Tail(s)) ELSE s

RECURSIVE TrimRight(_)
TrimRight(s) ==
    IF Len(s) > 0 /\ s[Len(s)] = " " THEN TrimRight(SubSeq(s, 1, Len(s) - 1)) ELSE s

Trim(s) == TrimRight(TrimLeft(s))

\* String.prototype.toLowerCase on one character
LowerChar(c) ==
    CASE c = "A" -> "a" [] c = "B" -> "b" [] c = "C" -> "c" [] c = "D" -> "d" [] c = "E" -> "e" [] c = "F" -> "f" [] c = "G" -> "g" [] c = "H" -> "h" [] c = "I" -> "i" [] c = "J" -> "j" [] c = "K" -> "k" [] c = "L" -> "l" [] c = "M" -> "m"
      [] c = "N" -> "n" [] c = "O" -> "o" [] c = "P" -> "p" [] c = "Q" -> "q" [] c = "R" -> "r" [] c = "S" -> "s" [] c = "T" -> "t" [] c = "U" -> "u" [] c = "V" -> "v" [] c = "W" -> "w" [] c = "X" -> "x" [] c = "Y" -> "y" [] c = "Z" -> "z"
      [] OTHER -> c

\* String.prototype.toLowerCase
ToLowerCase(s) == [i \in 1..Len(s) |-> LowerChar(s[i])]

\* /^[a-z0-9.-]+\.[a-z]{2,}$/i
MatchesDomain(s) ==
    \E i \in 2..Len(s) :
        /\ s[i] = "."
        /\ \A j \in 1..(i - 1) : IsDomainChar(s[j])
        /\ Len(s) - i >= 2
        /\ \A j \in (i + 1)..Len(s) : IsLetter(s[j])

\* domain: z.string().trim().min(1).regex(...)
DomainValid(b) ==
    /\ Has(b, "domain")
    /\ Len(Trim(b.domain)) >= 1
    /\ MatchesDomain(Trim(b.domain))

\* ports: z.array(z.number().int().positive()).max(3).optional()
PortsValid(b) ==
    Has(b, "ports") => (Len(b.ports) <= 3 /\ \A k \in 1..Len(b.ports) : b.ports[k] > 0)

\* stopAfter: z.enum([...]).optional()
StopAfterValid(b) == Has(b, "stopAfter") => b.stopAfter \in StopAfterValues

\* mxHostLimit: z.number().int().positive().max(10).optional()
MxHostLimitValid(b) == Has(b, "mxHostLimit") => (b.mxHostLimit > 0 /\ b.mxHostLimit <= 10)

\* BodySchema.safeParse(...).success
SafeParse(b) ==
    DomainValid(b) /\ PortsValid(b) /\ StopAfterValid(b) /\ MxHostLimitValid(b)

\* a field that may be left out of the body
Opt(key, values) == {Empty} \cup { key :> v : v \in values }

\* the values of the optional string fields in the model
SelectorSamples == { <<"a">> }
FromSamples == { <<"a", ".", "a", "a">>, <<"7", ".", "a", ".", "a", "a">> }

\* const domain = body.domain.toLowerCase()
Domain(b) == ToLowerCase(Trim(b.domain))

\* const dkimSelector = (body.dkimSelector || '').toLowerCase()
DkimSelector(b) == IF Has(b, "dkimSelector") THEN ToLowerCase(Trim(b.dkimSelector)) ELSE <<>>

\* const headerFrom = (body.headerFrom || domain).toLowerCase()
HeaderFrom(b) ==
    IF Has(b, "headerFrom") /\ Len(Trim(b.headerFrom)) > 0
    THEN ToLowerCase(Trim(b.headerFrom)) ELSE Domain(b)

\* const envelopeFrom = (body.envelopeFrom || domain).toLowerCase()
EnvelopeFrom(b) ==
    IF Has(b, "envelopeFrom") /\ Len(Trim(b.envelopeFrom)) > 0
    THEN ToLowerCase(Trim(b.envelopeFrom)) ELSE Domain(b)

\* !!body.quickTest, !!body.compelTls, !!body.directTls
Truthy(b, f) == Has(b, f) /\ b[f]

\* const ports = body.ports && body.ports.length ? body.ports : [25]
Ports(b) == IF Has(b, "ports") /\ Len(b.ports) > 0 THEN b.ports ELSE <<25>>

\* const domain = ..., const mxHostLimit = body.mxHostLimit
Locals(b) ==
    [domain |-> Domain(b), dkimSelector |-> DkimSelector(b),
     headerFrom |-> HeaderFrom(b), envelopeFrom |-> EnvelopeFrom(b),
     quickTest |-> Truthy(b, "quickTest"), compelTls |-> Truthy(b, "compelTls"),
     directTls |-> Truthy(b, "directTls"), ports |-> Ports(b),
     stopAfter |-> IF Has(b, "stopAfter") THEN b.stopAfter ELSE Undefined]
    @@ (IF Has(b, "mxHostLimit") THEN "mxHostLimit" :> b.mxHostLimit ELSE Empty)

Resolvers == {"mx", "spf", "dmarc", "dkim", "bimi", "mtasts", "tlsrpt", "dkimDiscovery"}

Issue(sev, summary) == [severity |-> sev, summary |-> summary]

\* resolveDkim called without a selector returns without a lookup
DkimNotChecked ==
    [checked |-> FALSE, found |-> FALSE,
     issues |-> <<Issue("info", "DKIM selector not provided")>>]

\* the resolvers whose first statement issues a network operation
StartedAtEntry(b) == IF Len(DkimSelector(b)) = 0 THEN Resolvers \ {"dkim"} ELSE Resolvers

\* POST up to `await Promise.all([...])`: the body is read and parsed, the
\* schema applied, and the eight resolvers called
postReceive ==
    /\ postPc = "idle"
    /\ IF ~request.json
       THEN \* request.json() throws inside the try: the catch answers
            /\ response' = [status |-> 500, body |-> Empty]
            /\ postPc' = "responded"
            /\ UNCHANGED <<locals, lookups, sections, started>>
       ELSE IF ~SafeParse(request.body)
       THEN /\ response' = [status |-> 400, body |-> Empty]
            /\ postPc' = "responded"
            /\ UNCHANGED <<locals, lookups, sections, started>>
       ELSE /\ locals' = Locals(request.body)
            /\ postPc' = "resolving"
            /\ started' = StartedAtEntry(request.body)
            /\ lookups' = [x \in Resolvers \ StartedAtEntry(request.body) |->
                              [kind |-> "none"]]
            /\ sections' = [x \in Resolvers \ StartedAtEntry(request.body) |->
                              DkimNotChecked]
            /\ UNCHANGED response
    /\ UNCHANGED request
    /\ UNCHANGED csVars
    /\ UNCHANGED nonPostVars

\* the request bodies of the validation runs, the domain of at most n
\* characters
ValidationBodies(n) ==
    { d @@ p @@ m @@ st :
        d  \in Opt("domain", Strings(n)),
        p  \in Opt("ports", {<<>>, <<25>>, <<0>>, <<25, 465, 587>>, <<25, 465, 587, 2525>>}),
        m  \in Opt("mxHostLimit", {0, 1, 10, 11}),
        st \in Opt("stopAfter", {"EHLO2", "QUIT"}) }

InitSpecValidate ==
    /\ ProbeIdle
    /\ CsIdle
    /\ NetIdle
    /\ FnIdle
    /\ CacheIdle
    /\ PoolIdle
    /\ AnIdle
    /\ request \in {[json |-> FALSE, body |-> Empty]}
                   \cup { [json |-> TRUE, body |-> b] : b \in ValidationBodies(MaxDomainLen) }
    /\ locals = Empty
    /\ postPc = "idle"
    /\ lookups = Empty
    /\ sections = Empty
    /\ response = NoResponse
    /\ started = {}

SpecValidate == InitSpecValidate /\ [][postReceive]_vars

Malformed ==
    \/ ~request.json
    \/ ~Has(request.body, "domain")
    \/ ~MatchesDomain(Trim(request.body.domain))
    \/ Has(request.body, "ports")
          /\ (Len(request.body.ports) > 3 \/ \E k \in 1..Len(request.body.ports) : request.body.ports[k] <= 0)
    \/ Has(request.body, "mxHostLimit") /\ request.body.mxHostLimit \notin 1..10
    \/ Has(request.body, "stopAfter") /\ request.body.stopAfter \notin StopAfterValues

\* C4: a malformed request is answered 400 and starts no DNS query, HTTPS
\* fetch or SMTP connection; 500 is never the answer to a malformed request.
C4_MalformedIs400 ==
    (Malformed /\ postPc # "idle") =>
        /\ postPc = "responded"
        /\ response.status = 400
        /\ started = {}

\* what does hold: a body that parses as JSON and fails the schema gets 400
\* before any work starts, and every body that passes the schema is analysed
SchemaFailureIs400 ==
    (request.json /\ postPc # "idle") =>
        IF Malformed
        THEN postPc = "responded" /\ response.status = 400 /\ started = {}
        ELSE postPc = "resolving" /\ response = NoResponse

(***************************************************************************)
(* POST: the eight resolvers, by the way their lookups ended               *)
(***************************************************************************)
\* how a DNS lookup or an HTTPS fetch ends: with the record, with an answer
\* that holds no such record, with a resolver error, or with the timer
LookupKinds == {"record", "empty", "error", "timeout"}

Failed(o) == o.kind \in {"error", "timeout"}

\* r put into the list l, sorted by priority, behind the records of l whose
\* priority is not higher
RECURSIVE Insert(_, _)
Insert(r, l) ==
    IF Len(l) = 0 THEN <<r>>
    ELSE IF l[Len(l)].priority <= r.priority THEN Append(l, r)
    ELSE Append(Insert(r, SubSeq(l, 1, Len(l) - 1)), l[Len(l)])

\* a sort that leaves the records in the order of the answer
SortByPriority_AsAnswered(l) == l

\* [...records].sort((a, b) => a.priority - b.priority): ascending and stable
RECURSIVE SortByPriority(_)
SortByPriority(l) ==
    IF Len(l) = 0 THEN <<>>
    ELSE Insert(l[Len(l)], SortByPriority(SubSeq(l, 1, Len(l) - 1)))

\* resolveMxWithGeo: o.records is the resolver's answer, in its order
resolveMxWithGeo(o, b) ==
    IF Failed(o)
    THEN [found |-> FALSE, records |-> <<>>,
          issues |-> <<Issue("error", "Failed to resolve MX")>>]
    ELSE LET sortedAll == SortByPriority(o.records)
             sorted == IF Has(b, "mxHostLimit") /\ b.mxHostLimit < Len(sortedAll)
                       THEN SubSeq(sortedAll, 1, b.mxHostLimit)
                       ELSE sortedAll
         IN  [found |-> Len(sorted) > 0, records |-> sorted,
              issues |-> IF Len(sorted) = 0
                         THEN <<Issue("error", "No MX records found")>>
                         ELSE <<>>]

\* \s
IsSpace(c) == c \in {" ", "\t"}

\* kw stands at position q of r, letters compared without case (flag i)
StartsWithAt(r, q, kw) ==
    /\ q + Len(kw) - 1 <= Len(r)
    /\ \A k \in 1..Len(kw) : LowerChar(r[q + k - 1]) = kw[k]

\* record.replace(/\s+/g, ' ')
RECURSIVE ReplaceSpaces(_)
ReplaceSpaces(s) ==
    IF Len(s) = 0 THEN <<>>
    ELSE IF IsSpace(s[1])
    THEN IF Len(s) > 1 /\ IsSpace(s[2])
         THEN ReplaceSpaces(Tail(s))
         ELSE <<" ">> \o ReplaceSpaces(Tail(s))
    ELSE <<s[1]>> \o ReplaceSpaces(Tail(s))

\* s.split(/\s+/), the piece in progress being cur
RECURSIVE SplitSpaces(_, _)
SplitSpaces(s, cur) ==
    IF Len(s) = 0 THEN <<cur>>
    ELSE IF IsSpace(s[1])
    THEN IF Len(s) > 1 /\ IsSpace(s[2])
         THEN SplitSpaces(Tail(s), cur)
         ELSE <<cur>> \o SplitSpaces(Tail(s), <<>>)
    ELSE SplitSpaces(Tail(s), Append(cur, s[1]))

\* [-+~?]
Qualifiers == {"-", "+", "~", "?"}

\* the alternatives a | mx | ptr | all
SpfWords == { <<"a">>, <<"m", "x">>, <<"p", "t", "r">>, <<"a", "l", "l">> }

\* the alternatives that take a value: ip4: ip6: include: exists: redirect=
SpfPrefixes ==
    { <<"i", "p", "4", ":">>,
      <<"i", "p", "6", ":">>,
      <<"i", "n", "c", "l", "u", "d", "e", ":">>,
      <<"e", "x", "i", "s", "t", "s", ":">>,
      <<"r", "e", "d", "i", "r", "e", "c", "t", "=">> }

\* [^s] under flag i: any character but the letter s, whitespace included
ValueChar(c) == LowerChar(c) # "s"

\* the positions after \s+ matched at i
SpaceEnds(r, i) == { p \in (i + 1)..(Len(r) + 1) : \A k \in i..(p - 1) : IsSpace(r[k]) }

\* the positions after [-+~?]? matched at p
QualifierEnds(r, p) == {p} \cup (IF p <= Len(r) /\ r[p] \in Qualifiers THEN {p + 1} ELSE {})

\* the positions after (a|mx|ip4:[^s]+|...|redirect=[^s]+) matched at q
MechanismEnds(r, q) ==
    { q + Len(w) : w \in { x \in SpfWords : StartsWithAt(r, q, x) } }
    \cup UNION { { e \in (q + Len(w) + 1)..(Len(r) + 1) :
                     \A k \in (q + Len(w))..(e - 1) : ValueChar(r[k]) } :
                 w \in { x \in SpfPrefixes : StartsWithAt(r, q, x) } }

\* the positions after one round of (\s+[-+~?]?(...)) matched at i
GroupEnds(r, i) ==
    UNION { UNION { MechanismEnds(r, q) : q \in QualifierEnds(r, p) } : p \in SpaceEnds(r, i) }

\* (\s+[-+~?]?(...))*\s*$ matches r from position i
RECURSIVE MatchesTail(_, _)
MatchesTail(r, i) ==
    \/ \A k \in i..Len(r) : IsSpace(r[k])
    \/ \E j \in GroupEnds(r, i) : MatchesTail(r, j)

SpfPrefix == <<"v", "=", "s", "p", "f", "1">>

\* /^v=spf1(\s+[-+~?]?(a|mx|ip4:[^s]+|...))*\s*$/i.test(r)
SpfRegexTest(r) == StartsWithAt(r, 1, SpfPrefix) /\ MatchesTail(r, Len(SpfPrefix) + 1)

\* /all$/i.test(t)
EndsWithAll(t) == Len(t) >= 3 /\ StartsWithAt(t, Len(t) - 2, <<"a", "l", "l">>)

\* /^\+?all$/i.test(t)
IsPlusAll(t) ==
    \/ Len(t) = 3 /\ StartsWithAt(t, 1, <<"a", "l", "l">>)
    \/ Len(t) = 4 /\ StartsWithAt(t, 1, <<"+", "a", "l", "l">>)

\* /^[-+~?]?include:/i.test(m)
IsInclude(t) ==
    \/ StartsWithAt(t, 1, <<"i", "n", "c", "l", "u", "d", "e", ":">>)
    \/ Len(t) > 0 /\ t[1] \in Qualifiers /\ StartsWithAt(t, 2, <<"i", "n", "c", "l", "u", "d", "e", ":">>)

NotRedirect(t) == ~(Len(t) >= 9 /\ SubSeq(t, 1, 9) = <<"r", "e", "d", "i", "r", "e", "c", "t", "=">>)

\* resolveSpf: o.record is the first TXT string that starts with v=spf1
resolveSpf(o) ==
    IF Failed(o)
    THEN [found |-> FALSE, validSyntax |-> FALSE,
          issues |-> <<Issue("error", "Failed to resolve SPF")>>]
    ELSE IF o.kind = "empty"
    THEN [found |-> FALSE, validSyntax |-> FALSE,
          issues |-> <<Issue("error", "No SPF record found")>>]
    ELSE LET validSyntax == SpfRegexTest(ReplaceSpaces(o.record))
             tokens == Tail(SplitSpaces(o.record, <<>>))
             mechanisms == SelectSeq(tokens, NotRedirect)
             alls == SelectSeq(tokens, EndsWithAll)
             includeCount == Len(SelectSeq(mechanisms, IsInclude))
         IN  [found |-> TRUE, record |-> o.record, validSyntax |-> validSyntax,
              mechanisms |-> mechanisms,
              issues |->
                  (IF validSyntax THEN <<>>
                   ELSE <<Issue("error", "SPF syntax looks invalid")>>)
                  \o (IF Len(alls) = 0
                      THEN <<Issue("warning", "No all mechanism at the end")>>
                      ELSE IF IsPlusAll(alls[1])
                      THEN <<Issue("error", "SPF ends with +all (permits anything)")>>
                      ELSE <<>>)
                  \o (IF includeCount > 10
                      THEN <<Issue("warning", "Too many include mechanisms")>>
                      ELSE <<>>)]
             @@ (IF Len(alls) > 0 THEN "allMechanism" :> alls[1] ELSE Empty)

\* s.split(c), the piece in progress being cur
RECURSIVE SplitOn(_, _, _)
SplitOn(s, c, cur) ==
    IF Len(s) = 0 THEN <<cur>>
    ELSE IF s[1] = c THEN <<cur>> \o SplitOn(Tail(s), c, <<>>)
    ELSE SplitOn(Tail(s), c, Append(cur, s[1]))

\* l.join(c)
RECURSIVE JoinWith(_, _)
JoinWith(l, c) ==
    IF Len(l) = 0 THEN <<>>
    ELSE IF Len(l) = 1 THEN l[1]
    ELSE l[1] \o <<c>> \o JoinWith(Tail(l), c)

\* .map((s) => s.trim()).filter(Boolean)
RECURSIVE TrimAll(_)
TrimAll(l) ==
    IF Len(l) = 0 THEN <<>>
    ELSE (IF Len(Trim(l[1])) > 0 THEN <<Trim(l[1])>> ELSE <<>>) \o TrimAll(Tail(l))

\* k.toLowerCase(): the key keeps the blanks around it
DmarcKey(k) == ToLowerCase(k)

\* const [k, ...rest] = p.split('='); return [k.toLowerCase(), rest.join('=').trim()]
DmarcEntry(part) ==
    LET pieces == SplitOn(part, "=", <<>>)
    IN  [k |-> DmarcKey(pieces[1]), v |-> Trim(JoinWith(Tail(pieces), "="))]

\* record.split(';').map(trim).filter(Boolean).map(...)
DmarcEntries(record) ==
    LET parts == TrimAll(SplitOn(record, ";", <<>>))
    IN  [i \in 1..Len(parts) |-> DmarcEntry(parts[i])]

\* kv[key] || '' on Object.fromEntries(entries): the last entry of a key wins
RECURSIVE KvGet(_, _)
KvGet(entries, key) ==
    IF Len(entries) = 0 THEN <<>>
    ELSE IF entries[Len(entries)].k = key THEN entries[Len(entries)].v
    ELSE KvGet(SubSeq(entries, 1, Len(entries) - 1), key)

IsDigit(c) == c \in {"0", "1", "2", "3", "4", "5", "6", "7", "8", "9"}

DigitValue(c) ==
    CASE c = "0" -> 0 [] c = "1" -> 1 [] c = "2" -> 2 [] c = "3" -> 3 [] c = "4" -> 4
      [] c = "5" -> 5 [] c = "6" -> 6 [] c = "7" -> 7 [] c = "8" -> 8 [] c = "9" -> 9

\* the value of a string of digits
RECURSIVE DigitsValue(_)
DigitsValue(d) ==
    IF Len(d) = 0 THEN 0 ELSE 10 * DigitsValue(SubSeq(d, 1, Len(d) - 1)) + DigitValue(d[Len(d)])

AllDigits(d) == Len(d) > 0 /\ \A k \in 1..Len(d) : IsDigit(d[k])

\* Number(v) for the strings of the model, which are either a decimal literal
\* with an optional sign and at most one fractional digit or not numeric:
\* the number in tenths, or NaN
Number(v) ==
    LET neg == Len(v) > 0 /\ v[1] = "-"
        u == IF Len(v) > 0 /\ v[1] \in {"-", "+"} THEN Tail(v) ELSE v
        pieces == SplitOn(u, ".", <<>>)
    IN  IF Len(pieces) = 1 /\ AllDigits(u)
        THEN [nan |-> FALSE, tenths |-> (IF neg THEN -10 ELSE 10) * DigitsValue(u)]
        ELSE IF Len(pieces) = 2 /\ AllDigits(pieces[1]) /\ Len(pieces[2]) = 1 /\ AllDigits(pieces[2])
        THEN [nan |-> FALSE,
              tenths |-> (IF neg THEN -1 ELSE 1) * (10 * DigitsValue(pieces[1]) + DigitsValue(pieces[2]))]
        ELSE [nan |-> TRUE, tenths |-> 0]

\* Math.round: the nearest integer, a half rounded up
MathRound(tenths) == (tenths + 5) \div 10

\* Math.min(100, Math.max(0, x))
Clamp(x) == IF x > 100 THEN 100 ELSE IF x < 0 THEN 0 ELSE x

Policies == { <<"n", "o", "n", "e">>, <<"q", "u", "a", "r", "a", "n", "t", "i", "n", "e">>, <<"r", "e", "j", "e", "c", "t">> }

\* the policy as the string of the result
PolicyName(p) ==
    IF p = <<"n", "o", "n", "e">> THEN "none"
    ELSE IF p = <<"q", "u", "a", "r", "a", "n", "t", "i", "n", "e">> THEN "quarantine"
    ELSE "reject"

\* resolveDmarc: o.record is the first TXT string that starts with v=dmarc1
resolveDmarc(o) ==
    IF Failed(o)
    THEN [found |-> FALSE, policy |-> Undefined,
          issues |-> <<Issue("error", "Failed to resolve DMARC")>>]
    ELSE IF o.kind = "empty"
    THEN [found |-> FALSE, policy |-> Undefined,
          issues |-> <<Issue("error", "No DMARC record found")>>]
    ELSE LET validSyntax == StartsWithAt(o.record, 1, <<"v", "=", "d", "m", "a", "r", "c", "1", ";">>)
             kv == DmarcEntries(o.record)
             p == ToLowerCase(KvGet(kv, <<"p">>))
             policy == IF p \in Policies THEN PolicyName(p) ELSE Undefined
             n == Number(KvGet(kv, <<"p", "c", "t">>))
             rua == KvGet(kv, <<"r", "u", "a">>)
             ruf == KvGet(kv, <<"r", "u", "f">>)
             adkim == KvGet(kv, <<"a", "d", "k", "i", "m">>)
             aspf == KvGet(kv, <<"a", "s", "p", "f">>)
         IN  [found |-> TRUE, record |-> o.record, validSyntax |-> validSyntax,
              policy |-> policy,
              alignment |-> [adkim |-> IF Len(adkim) > 0 THEN adkim ELSE <<"r">>,
                             aspf |-> IF Len(aspf) > 0 THEN aspf ELSE <<"r">>],
              issues |->
                  (IF validSyntax THEN <<>>
                   ELSE <<Issue("error", "DMARC syntax looks invalid")>>)
                  \o (IF policy = Undefined
                      THEN <<Issue("warning", "No valid policy (p) found")>>
                      ELSE <<>>)
                  \o (IF policy = "none"
                      THEN <<Issue("warning", "DMARC policy is none")>>
                      ELSE <<>>)]
             @@ (IF Len(KvGet(kv, <<"p", "c", "t">>)) > 0 /\ ~n.nan
                 THEN "pct" :> Clamp(MathRound(n.tenths)) ELSE Empty)
             @@ (IF Len(rua) > 0 THEN "rua" :> TrimAll(SplitOn(rua, ",", <<>>)) ELSE Empty)
             @@ (IF Len(ruf) > 0 THEN "ruf" :> TrimAll(SplitOn(ruf, ",", <<>>)) ELSE Empty)

\* resolveDkim with a selector
resolveDkim(o) ==
    IF Failed(o)
    THEN [checked |-> TRUE, found |-> FALSE,
          issues |-> <<Issue("error", "Failed to resolve DKIM")>>]
    ELSE IF o.kind = "empty"
    THEN [checked |-> TRUE, found |-> FALSE,
          issues |-> <<Issue("error", "No DKIM record found")>>]
    ELSE [checked |-> TRUE, found |-> TRUE, issues |-> <<>>]

\* resolveBimi: o.fetch is the end of the fetch of the logo ("none": the
\* record names no http(s) logo; "empty": a response that is not ok)
resolveBimi(o) ==
    IF Failed(o) \/ (o.kind = "record" /\ o.fetch \in {"error", "timeout"})
    THEN [found |-> FALSE, issues |-> <<Issue("error", "Failed to resolve BIMI")>>]
    ELSE IF o.kind = "empty"
    THEN [found |-> FALSE, issues |-> <<Issue("error", "No BIMI record found")>>]
    ELSE [found |-> TRUE,
          issues |-> IF o.fetch = "empty"
                     THEN <<Issue("warning", "Unable to fetch BIMI logo URL")>>
                     ELSE <<>>]

\* a resolveTlsRpt that returns an empty answer without an issue
resolveTlsRpt_SilentWhenEmpty(o) ==
    IF Failed(o)
    THEN [found |-> FALSE, issues |-> <<Issue("error", "Failed to resolve TLS-RPT")>>]
    ELSE IF o.kind = "empty"
    THEN [found |-> FALSE, issues |-> <<>>]
    ELSE [found |-> TRUE, issues |-> <<>>]

\* resolveTlsRpt
resolveTlsRpt(o) ==
    IF Failed(o)
    THEN [found |-> FALSE, issues |-> <<Issue("error", "Failed to resolve TLS-RPT")>>]
    ELSE IF o.kind = "empty"
    THEN [found |-> FALSE, issues |-> <<Issue("warning", "No TLS-RPT record found")>>]
    ELSE [found |-> TRUE, issues |-> <<>>]

\* resolveMtasts: o.kind is the end of the TXT lookup, o.fetch that of the
\* policy fetch ("record": 200 with a policy of mode o.mode; "empty": a
\* response that is not ok)
resolveMtasts(o) ==
    LET txtIssues ==
            IF Failed(o) THEN <<Issue("error", "Failed to resolve MTA-STS TXT")>>
            ELSE IF o.kind = "empty" THEN <<Issue("warning", "No MTA-STS TXT found")>>
            ELSE <<>>
        fetchIssues ==
            IF o.fetch \in {"error", "timeout"}
            THEN <<Issue("error", "Error fetching MTA-STS policy")>>
            ELSE IF o.fetch = "empty"
            THEN <<Issue("warning", "Failed to fetch MTA-STS policy")>>
            ELSE <<>>
    IN  [foundTxt |-> o.kind = "record",
         foundPolicy |-> o.fetch = "record",
         mode |-> IF o.fetch = "record" THEN o.mode ELSE Undefined,
         issues |-> txtIssues \o fetchIssues]

\* discoverDkimSelectors: failures per selector are swallowed
discoverDkimSelectors(o) ==
    [found |-> IF o.kind = "record" THEN <<"default">> ELSE <<>>, issues |-> <<>>]

ResolverResult(x, o, b) ==
    CASE x = "mx"            -> resolveMxWithGeo(o, b)
      [] x = "spf"           -> resolveSpf(o)
      [] x = "dmarc"         -> resolveDmarc(o)
      [] x = "dkim"          -> resolveDkim(o)
      [] x = "bimi"          -> resolveBimi(o)
      [] x = "mtasts"        -> resolveMtasts(o)
      [] x = "tlsrpt"        -> resolveTlsRpt(o)
      [] x = "dkimDiscovery" -> discoverDkimSelectors(o)

\* the ends of the lookups of each resolver in the model
Outcomes(x) ==
    CASE x = "mx"     -> { [kind |-> "record", records |-> m] :
                              m \in { <<>>, <<MxRecord(1)>>, <<MxRecord(3), MxRecord(1)>> } }
                         \cup { [kind |-> "error", code |-> c] : c \in {"ENODATA", "ESERVFAIL"} }
      [] x = "spf"    -> { [kind |-> "record", record |-> <<"v", "=", "s", "p", "f", "1", " ", "-", "a", "l", "l">>] }
                         \cup { [kind |-> k] : k \in LookupKinds \ {"record"} }
      [] x = "dmarc"  -> { [kind |-> "record", record |-> <<"v", "=", "D", "M", "A", "R", "C", "1", ";", " ", "p", "=", "n", "o", "n", "e">>],
                           [kind |-> "record", record |-> <<"v", "=", "D", "M", "A", "R", "C", "1", ";", " ", "p", "=", "r", "e", "j", "e", "c", "t">>],
                           [kind |-> "timeout"] }
      [] x = "mtasts" -> { [kind |-> "record", fetch |-> "record", mode |-> "enforce"],
                           [kind |-> "record", fetch |-> "error", mode |-> Undefined],
                           [kind |-> "error", fetch |-> "timeout", mode |-> Undefined] }
      [] x = "bimi"   -> { [kind |-> "record", fetch |-> "none"],
                           [kind |-> "error", fetch |-> "none"] }
      [] OTHER        -> { [kind |-> "record"], [kind |-> "error"] }

\* one of the eight promises settles
resolverSettles(x, o) ==
    /\ postPc = "resolving"
    /\ x \in Resolvers \ DOMAIN lookups
    /\ o \in Outcomes(x)
    /\ lookups' = (x :> o) @@ lookups
    /\ sections' = (x :> ResolverResult(x, o, locals)) @@ sections
    /\ UNCHANGED <<request, locals, postPc, response, started>>
    /\ UNCHANGED csVars
    /\ UNCHANGED nonPostVars

\* Promise.all resolves: POST calls resolveBlacklists(domain, mx.records)
postAllSettled ==
    /\ postPc = "resolving"
    /\ DOMAIN lookups = Resolvers
    /\ postPc' = "blacklists"
    /\ started' = started \cup {"blacklists"}
    /\ UNCHANGED <<request, locals, lookups, sections, response>>
    /\ UNCHANGED csVars
    /\ UNCHANGED nonPostVars

(***************************************************************************)
(* POST: blacklists, reputation, simulations, starttls and the response    *)
(***************************************************************************)
Range(f) == { f[k] : k \in DOMAIN f }

\* Array.from(new Set(mxRecords.flatMap((m) => m.addresses || [])))
UniqueIps(records) == UNION { Range(records[k].addresses) : k \in 1..Len(records) }

\* resolveBlacklists: 3 domain lists and 11 IP lists per address; o tells
\* whether the first list of each kind answers with an A record
resolveBlacklists(o, records) ==
    [domain |-> [i \in 1..3 |-> [listed |-> o.domainListed /\ i = 1]],
     ips    |-> [ip \in UniqueIps(records) |->
                    [i \in 1..11 |-> [listed |-> o.ipListed /\ i = 1]]],
     issues |-> <<>>]

BlacklistOutcomes ==
    { [domainListed |-> FALSE, ipListed |-> FALSE],
      [domainListed |-> TRUE, ipListed |-> FALSE],
      [domainListed |-> FALSE, ipListed |-> TRUE] }

\* a level that calls a score of exactly 60 poor
Level_FairAbove60(score) ==
    IF score >= 80 THEN "good" ELSE IF score > 60 THEN "fair" ELSE "poor"

\* score >= 80 ? 'good' : score >= 60 ? 'fair' : 'poor'
Level(score) ==
    IF score >= 80 THEN "good" ELSE IF score >= 60 THEN "fair" ELSE "poor"

\* computeReputation
computeReputation(spf, dmarc, blacklists) ==
    LET anyIpListed == \E ip \in DOMAIN blacklists.ips :
                          \E i \in DOMAIN blacklists.ips[ip] : blacklists.ips[ip][i].listed
        domainListed == \E i \in DOMAIN blacklists.domain : blacklists.domain[i].listed
        raw == 100 - (IF anyIpListed THEN 40 ELSE 0)
                   - (IF domainListed THEN 30 ELSE 0)
                   - (IF ~spf.found \/ ~spf.validSyntax THEN 10 ELSE 0)
                   - (IF ~dmarc.found THEN 15
                      ELSE IF dmarc.policy = "none" THEN 8
                      ELSE IF dmarc.policy = "quarantine" THEN 2 ELSE 0)
        score == IF raw < 0 THEN 0 ELSE IF raw > 100 THEN 100 ELSE raw
    IN  [score |-> score, level |-> Level(score)]

\* d.split('.')
RECURSIVE Split(_, _, _)
Split(d, i, cur) ==
    IF i > Len(d) THEN <<cur>>
    ELSE IF d[i] = "." THEN <<cur>> \o Split(d, i + 1, <<>>)
    ELSE Split(d, i + 1, Append(cur, d[i]))

NonEmpty(l) == Len(l) > 0

\* getOrgDomain
getOrgDomain(d) ==
    LET parts == SelectSeq(Split(d, 1, <<>>), NonEmpty)
        n == Len(parts)
    IN  IF n <= 2 THEN d ELSE parts[n - 1] \o <<".">> \o parts[n]

policyOptions == <<"none", "quarantine", "reject">>
adkimOptions == <<"r", "s">>
aspfOptions == <<"r", "s">>

\* loops that step adkim and aspf together
LoopVariables_AlignmentsInStep(k) ==
    [policy |-> policyOptions[((k - 1) \div 4) + 1],
     adkim  |-> adkimOptions[((k - 1) % 2) + 1],
     aspf   |-> aspfOptions[((k - 1) % 2) + 1]]

\* the loop variables in the k-th run of the body of
\* for (p of policyOptions) for (adkim of adkimOptions) for (aspf of aspfOptions)
LoopVariables(k) ==
    [policy |-> policyOptions[((k - 1) \div 4) + 1],
     adkim  |-> adkimOptions[(((k - 1) \div 2) % 2) + 1],
     aspf   |-> aspfOptions[((k - 1) % 2) + 1]]

\* simulateDmarc: the scenarios in the order of the three nested loops
simulateDmarc(domain, spf, headerFrom, envelopeFrom) ==
    LET headerOrg == getOrgDomain(headerFrom)
        spfOrg    == getOrgDomain(envelopeFrom)
        dkimOrg   == getOrgDomain(domain)
        \* adkim === 's' ? domain === headerFrom : dkimOrg === headerOrg
        dkimAligned == [adkim \in {"r", "s"} |->
                           IF adkim = "s" THEN domain = headerFrom
                           ELSE dkimOrg = headerOrg]
        \* aspf === 's' ? envelopeFrom === headerFrom : spfOrg === headerOrg
        spfAligned  == [aspf \in {"r", "s"} |->
                           IF aspf = "s" THEN envelopeFrom = headerFrom
                           ELSE spfOrg = headerOrg]
        scenario(k) ==
            LET p     == LoopVariables(k).policy
                adkim == LoopVariables(k).adkim
                aspf  == LoopVariables(k).aspf
                dkimPassAligned == dkimAligned[adkim]
                spfPassAligned  == IF spf.found THEN spfAligned[aspf] ELSE FALSE
                alignedPass == dkimPassAligned \/ spfPassAligned
            IN  [policy |-> p, adkim |-> adkim, aspf |-> aspf,
                 alignedPass |-> alignedPass,
                 passBy |-> IF dkimPassAligned THEN "dkim"
                            ELSE IF spfPassAligned THEN "spf" ELSE "none",
                 disposition |-> IF alignedPass THEN "none" ELSE p]
    IN  [scenarios |-> [k \in 1..(Len(policyOptions) * Len(adkimOptions) * Len(aspfOptions))
                           |-> scenario(k)]]

\* the options POST passes to checkStarttls
StarttlsOptions(l) ==
    [quickTest |-> l.quickTest, compelTls |-> l.compelTls, directTls |-> l.directTls,
     ports |-> l.ports, stopAfter |-> l.stopAfter]

\* resolveBlacklists returns: reputation and simulations are computed and
\* checkStarttls is called, which runs up to its first await
postBlacklistsSettled(o) ==
    /\ postPc = "blacklists"
    /\ o \in BlacklistOutcomes
    /\ LET bl == resolveBlacklists(o, sections["mx"].records)
       IN  sections' =
               [blacklists  |-> bl,
                reputation  |-> computeReputation(sections["spf"], sections["dmarc"], bl),
                simulations |-> simulateDmarc(locals.domain, sections["spf"],
                                              locals.headerFrom, locals.envelopeFrom)]
               @@ sections
    /\ mxRecords' = sections["mx"].records
    /\ csMtasts' = [foundPolicy |-> sections["mtasts"].foundPolicy,
                    mode |-> sections["mtasts"].mode]
    /\ csOpts' = StarttlsOptions(locals)
    /\ SetCs(RunLoop(1, 1, <<>>, <<>>, sections["mx"].records, StarttlsOptions(locals)))
    /\ started' = started \cup {"starttls"}
    /\ postPc' = "starttls"
    /\ UNCHANGED <<request, locals, lookups, response>>
    /\ UNCHANGED nonPostVars

API_VERSION == "1.2.0"

\* checkStarttls has returned: the report is assembled and answered
postRespond ==
    /\ postPc = "starttls"
    /\ csPc = "returned"
    /\ sections' = [domain   |-> locals.domain,
                    starttls |-> [checks |-> checks, issues |-> <<>>],
                    meta     |-> [apiVersion |-> API_VERSION]]
                   @@ sections
    /\ response' = [status |-> 200, body |-> sections']
    /\ postPc' = "responded"
    /\ UNCHANGED <<request, locals, lookups, started>>
    /\ UNCHANGED csVars
    /\ UNCHANGED nonPostVars

\* the schema-valid requests of the analysis runs
PostBodies ==
    { [domain |-> <<"a", ".", "a", "a">>],
      [domain |-> <<"A", ".", "a", "a", " ">>, dkimSelector |-> <<"a">>,
       headerFrom |-> <<"7", ".", "a", ".", "a", "a">>, quickTest |-> TRUE,
       ports |-> <<25, 465>>],
      [domain |-> <<"7", ".", "a", ".", "a", "a">>, directTls |-> TRUE,
       ports |-> <<465>>, mxHostLimit |-> 1],
      [domain |-> <<"a", ".", "a", "a">>, envelopeFrom |-> <<"a", "a", ".", "a", "a">>,
       compelTls |-> TRUE, ports |-> <<70000, 25>>, stopAfter |-> "EHLO1"] }

InitSpecPost ==
    /\ ProbeIdle
    /\ CsIdle
    /\ NetIdle
    /\ FnIdle
    /\ CacheIdle
    /\ PoolIdle
    /\ AnIdle
    /\ request \in { [json |-> TRUE, body |-> b] : b \in PostBodies }
    /\ locals = Empty
    /\ postPc = "idle"
    /\ lookups = Empty
    /\ sections = Empty
    /\ response = NoResponse
    /\ started = {}

NextPost ==
    \/ postReceive
    \/ \E x \in Resolvers : \E o \in Outcomes(x) : resolverSettles(x, o)
    \/ postAllSettled
    \/ \E o \in BlacklistOutcomes : postBlacklistsSettled(o)
    \/ \E r \in {Refused} \cup {Completed(o) : o \in ProbeOptions} : csProbeResolved(r)
    \/ csProbeNeverResolves
    \/ postRespond

SpecPost == InitSpecPost /\ [][NextPost]_vars

ReportSections ==
    {"domain", "mx", "spf", "dmarc", "dkim", "bimi", "mtasts", "tlsrpt", "dkimDiscovery",
     "blacklists", "reputation", "simulations", "starttls", "meta"}

\* the steps of the analysis are taken as long as one can be
FairPost == SpecPost /\ WF_vars(NextPost)

\* a section whose lookups failed is not found and carries an issue
Degraded(x, sec) ==
    /\ Len(sec.issues) > 0
    /\ IF x = "mtasts" THEN ~sec.foundTxt \/ ~sec.foundPolicy ELSE ~sec.found

\* the response is a whole report: every section present, each of the
\* parallel sections the result of its own lookups alone, degraded with an
\* issue when they failed
WholeReport ==
    /\ postPc = "responded"
    /\ response.status = 200
    /\ DOMAIN response.body = ReportSections
    /\ \A x \in Resolvers :
          /\ lookups[x].kind # "none" =>
                response.body[x] = ResolverResult(x, lookups[x], locals)
          /\ (x \in {"mx", "spf", "dmarc", "dkim", "bimi", "mtasts", "tlsrpt"}
                /\ Failed(lookups[x])) => Degraded(x, response.body[x])

\* C2: whatever the outcomes of the lookups, fetches and probes, a
\* schema-valid request is eventually answered with a whole report (status
\* 200, every section, a failed sub-check degrading its own section only).
C2_ValidRequestGetsReport ==
    (request.json /\ SafeParse(request.body)) ~> WholeReport

\* what does hold: no 500, and every response returned is a whole report
ResponseIsWholeReport ==
    /\ response.status \in {0, 200}
    /\ postPc = "responded" => WholeReport

\* the request waits for ever on a probe that never resolves
PostStuck == postPc = "starttls" /\ csPc = "stuck"

\* the MX lookup ended with an answer that holds no record
EmptyMxAnswer ==
    "mx" \in DOMAIN lookups /\ lookups["mx"].kind = "record" /\ lookups["mx"].records = <<>>

\* the MX lookup ended with the resolver's error for a name without MX data
NoDataMxError ==
    "mx" \in DOMAIN lookups /\ lookups["mx"].kind = "error" /\ lookups["mx"].code = "ENODATA"

\* the mx section and the STARTTLS stage of a domain without MX records
NoMxReport ==
    /\ response.body["mx"].found = FALSE
    /\ response.body["mx"].records = <<>>
    /\ response.body["mx"].issues = <<Issue("error", "No MX records found")>>
    /\ calls = <<>>
    /\ response.body["starttls"].checks = <<>>

\* C17: for a domain with zero MX records, signalled by the resolver as an
\* empty answer or as a no-data error, the report has mx.found false, no mx
\* records and the one error issue 'No MX records found', and the STARTTLS
\* stage opens no connection and returns no checks.
C17_NoMxRecords ==
    (postPc = "responded" /\ response.status = 200 /\ (EmptyMxAnswer \/ NoDataMxError))
        => NoMxReport

\* what does hold: the empty answer is reported so, the no-data error is
\* reported as a failed lookup, and neither opens a connection
NoMxRecordsByAnswer ==
    (postPc = "responded" /\ response.status = 200) =>
        /\ EmptyMxAnswer => NoMxReport
        /\ NoDataMxError =>
              /\ response.body["mx"].found = FALSE
              /\ response.body["mx"].records = <<>>
              /\ response.body["mx"].issues = <<Issue("error", "Failed to resolve MX")>>
              /\ calls = <<>>
              /\ response.body["starttls"].checks = <<>>

\* a report for an empty MX answer is returned
EmptyMxAnswerReported ==
    ~(postPc = "responded" /\ response.status = 200 /\ EmptyMxAnswer)

(***************************************************************************)
(* The network operations of the analysis and what wraps them              *)
(***************************************************************************)
\* the call sites that issue a network operation
NetCalls ==
    {"dnsResolveMx", "dnsResolve4Safe", "dnsResolveTxt", "dkimResolveTxt", "dnsblResolve4",
     "bimiFetch", "bimiBody", "mtastsFetch", "mtastsBody", "geoFetch", "geoBody"}

\* the operation is raced against a timer: withTimeout(...) for the DNS
\* queries, the abort timer of fetchWithTimeout until the response headers
HasTimer(c) ==
    c \in {"dnsResolveMx", "dnsResolve4Safe", "dnsResolveTxt", "dnsblResolve4",
           "bimiFetch", "mtastsFetch", "geoFetch"}

\* the `retries` argument of the retryOperation around the operation
Retries(c) ==
    CASE c \in {"dnsResolveMx", "dnsResolve4Safe", "dnsResolveTxt", "mtastsFetch"} -> 2
      [] c = "geoFetch" -> 1
      [] OTHER -> 0

\* the section of the report the operation works for
StageOf(c) ==
    CASE c = "dkimResolveTxt" -> "dkim"
      [] c \in {"bimiFetch", "bimiBody"} -> "bimi"
      [] c \in {"mtastsFetch", "mtastsBody"} -> "mtasts"
      [] c = "dnsblResolve4" -> "blacklists"
      [] c = "dnsResolveTxt" -> "spf"
      [] OTHER -> "mx"

\* the `baseDelayMs` argument of the retryOperation around the operation
BaseDelayMs(c) ==
    CASE c \in {"dnsResolveMx", "dnsResolve4Safe", "dnsResolveTxt"} -> 200
      [] c = "mtastsFetch" -> 300
      [] c = "geoFetch" -> 250
      [] OTHER -> 0

\* a back-off that does not grow
Delay_Constant(base, i) == base

\* const delay = baseDelayMs * Math.pow(2, i)
Delay(base, i) == base * 2^i

\* an attempt has failed: catch (e) { lastErr = e; if (i === retries) break; ... }
AttemptFailed(how) ==
    /\ netLog' = Append(netLog, how)
    /\ lastErr' = how
    /\ netTimer' = FALSE
    /\ IF netAttempt = Retries(netCall)
       THEN netPc' = "settled" /\ netResult' = "failed" /\ UNCHANGED netWaits
       ELSE /\ netPc' = "delay"
            /\ netResult' = netResult
            /\ netWaits' = Append(netWaits, Delay(BaseDelayMs(netCall), netAttempt))
    /\ UNCHANGED <<netCall, netAttempt>>

\* the operation completes, with an answer or with an error
opCompletes(how) ==
    /\ netPc = "inflight"
    /\ how \in {"ok", "error"}
    /\ IF how = "ok"
       THEN /\ netPc' = "settled"
            /\ netResult' = "ok"
            /\ netTimer' = FALSE
            /\ netLog' = Append(netLog, how)
            /\ UNCHANGED <<netCall, netAttempt, netWaits, lastErr>>
       ELSE AttemptFailed(how)
    /\ UNCHANGED nonNetVars

\* the timer racing the operation fires first
timerFires ==
    /\ netPc = "inflight"
    /\ netTimer
    /\ AttemptFailed("timeout")
    /\ UNCHANGED nonNetVars

\* await new Promise((r) => setTimeout(r, delay)) is over: the next attempt
delayElapses ==
    /\ netPc = "delay"
    /\ netPc' = "inflight"
    /\ netAttempt' = netAttempt + 1
    /\ netTimer' = HasTimer(netCall)
    /\ UNCHANGED <<netCall, netLog, netResult, netWaits, lastErr>>
    /\ UNCHANGED nonNetVars

InitSpecNet ==
    /\ ProbeIdle
    /\ CsIdle
    /\ PostIdle
    /\ FnIdle
    /\ CacheIdle
    /\ PoolIdle
    /\ AnIdle
    /\ netCall \in NetCalls
    /\ netPc = "inflight"
    /\ netAttempt = 0
    /\ netTimer = HasTimer(netCall)
    /\ netLog = <<>>
    /\ netResult = "none"
    /\ netWaits = <<>>
    /\ lastErr = "none"

NextNet ==
    \/ \E how \in {"ok", "error"} : opCompletes(how)
    \/ timerFires
    \/ delayElapses

SpecNet == InitSpecNet /\ [][NextNet]_vars

\* timers fire; nothing makes the network answer
FairNet == SpecNet /\ WF_vars(timerFires) /\ WF_vars(delayElapses)

\* C10: every network operation the analysis issues is raced against a
\* timer, so that even when the network never answers the operation settles
\* (as a failure of its stage) and the request can go on.
C10_EveryOperationSettles == <>(netPc = "settled")

\* an operation in flight without a timer
UntimedInFlight == netPc = "inflight" /\ ~netTimer

\* what does hold: the operations wrapped in withTimeout or issued through
\* fetchWithTimeout settle whatever the network does
TimedOperationsSettle == HasTimer(netCall) => <>(netPc = "settled")

\* ... and those are exactly the ones that are never in flight without a timer
TimerIffWrapped == UntimedInFlight => ~HasTimer(netCall)

(***************************************************************************)
(* simulateDmarc, called on its own                                        *)
(***************************************************************************)
\* names: strings of letters and dots
Names(n) == UNION { [1..k -> {"a", "."}] : k \in 0..n }

\* the envelope senders of the calls
EnvelopeSamples ==
    { <<"a", ".", "a", "a">>, <<"a", "a", ".", "a", "a">>,
      <<"a", ".", "a", ".", "a", "a">>, <<"a", "a", "a">> }

\* simulateDmarc({ domain, spf, dmarc, headerFrom, envelopeFrom })
callSimulateDmarc ==
    /\ fnPc = "called"
    /\ fnResult' = simulateDmarc(fnArgs.domain, fnArgs.spf, fnArgs.headerFrom,
                                 fnArgs.envelopeFrom)
    /\ fnPc' = "returned"
    /\ UNCHANGED fnArgs
    /\ UNCHANGED nonFnVars

InitSpecSimulate ==
    /\ ProbeIdle
    /\ CsIdle
    /\ PostIdle
    /\ NetIdle
    /\ CacheIdle
    /\ PoolIdle
    /\ AnIdle
    /\ fnArgs \in [domain : {d \in Names(MaxNameLen) : MatchesDomain(d)},
                   spf : {[found |-> TRUE], [found |-> FALSE]},
                   headerFrom : Names(MaxNameLen),
                   envelopeFrom : EnvelopeSamples]
    /\ fnResult = [k \in {} |-> TRUE]
    /\ fnPc = "called"

SpecSimulate == InitSpecSimulate /\ [][callSimulateDmarc]_vars

\* C11: simulateDmarc returns exactly 12 scenarios, no two with the same
\* (policy, adkim, aspf), so that every triple of
\* {none, quarantine, reject} x {r, s} x {r, s} appears exactly once.
C11_TwelveDistinctScenarios ==
    fnPc = "returned" =>
        LET sc == fnResult.scenarios
            triple(k) == <<sc[k].policy, sc[k].adkim, sc[k].aspf>>
        IN  /\ DOMAIN sc = 1..12
            /\ \A j, k \in 1..12 : triple(j) = triple(k) => j = k
            /\ \A t \in {"none", "quarantine", "reject"} \X {"r", "s"} \X {"r", "s"} :
                  Cardinality({k \in 1..12 : triple(k) = t}) = 1

\* a call has returned whose header From is a sub-domain of the domain
C11_Witness ==
    /\ fnPc = "returned"
    /\ fnArgs.domain = <<"a", ".", "a", "a">>
    /\ fnArgs.headerFrom = <<"a", ".", "a", ".", "a">>
    /\ fnArgs.spf.found
    /\ Len(fnResult.scenarios) = 12

\* the labels of a name: its pieces between dots, empty pieces left out
Labels(d) == SelectSeq(Split(d, 1, <<>>), NonEmpty)

\* the organizational domain as the last two labels of a name
LastTwoLabels(d) ==
    LET l == Labels(d)
        n == Len(l)
    IN  IF n = 0 THEN <<>>
        ELSE IF n = 1 THEN l[1]
        ELSE l[n - 1] \o <<".">> \o l[n]

\* the fields of scenario sc as they follow from the alignment rules
FollowsAlignmentRules(sc, a) ==
    LET dkimAligned ==
            \/ sc.adkim = "s" /\ a.domain = a.headerFrom
            \/ sc.adkim = "r" /\ LastTwoLabels(a.domain) = LastTwoLabels(a.headerFrom)
        spfAligned ==
            /\ a.spf.found
            /\ \/ sc.aspf = "s" /\ a.envelopeFrom = a.headerFrom
               \/ sc.aspf = "r" /\ LastTwoLabels(a.envelopeFrom) = LastTwoLabels(a.headerFrom)
    IN  /\ sc.alignedPass = (dkimAligned \/ spfAligned)
        /\ sc.disposition = (IF sc.alignedPass THEN "none" ELSE sc.policy)
        /\ sc.passBy = (IF dkimAligned THEN "dkim" ELSE IF spfAligned THEN "spf" ELSE "none")

\* C12: in every scenario DKIM and SPF alignment are exact equality under s
\* and equality of the last two labels under r, alignedPass is their
\* disjunction (SPF only when spf.found), disposition is none on a pass and
\* the policy otherwise, and passBy names the first mechanism that aligned.
C12_AlignmentRules ==
    fnPc = "returned" =>
        \A k \in DOMAIN fnResult.scenarios :
            FollowsAlignmentRules(fnResult.scenarios[k], fnArgs)

\* a name without empty labels: no leading, trailing or doubled dot
WellFormed(d) == Len(Split(d, 1, <<>>)) = Len(Labels(d))

\* what does hold: the rules are followed when no name has an empty label,
\* and getOrgDomain is then the last two labels
AlignmentRulesOnWellFormedNames ==
    (/\ fnPc = "returned"
     /\ WellFormed(fnArgs.domain)
     /\ WellFormed(fnArgs.headerFrom)
     /\ WellFormed(fnArgs.envelopeFrom)) =>
        /\ getOrgDomain(fnArgs.headerFrom) = LastTwoLabels(fnArgs.headerFrom)
        /\ \A k \in DOMAIN fnResult.scenarios :
              FollowsAlignmentRules(fnResult.scenarios[k], fnArgs)

(***************************************************************************)
(* computeReputation, called on its own                                    *)
(***************************************************************************)
\* the listings of one name on its lists: none, the first, or the last
ListingSamples(n) ==
    { [i \in 1..n |-> [listed |-> FALSE]],
      [i \in 1..n |-> [listed |-> i = 1]],
      [i \in 1..n |-> [listed |-> i = n]] }

\* blacklist results over at most two MX addresses
BlacklistSamples ==
    { [domain |-> d, ips |-> ips, issues |-> <<>>] :
        d \in [1..3 -> {[listed |-> TRUE], [listed |-> FALSE]}],
        ips \in UNION { [S -> ListingSamples(11)] : S \in SUBSET {"192.0.2.1", "192.0.2.2"} } }

SpfSamples == [found : BOOLEAN, validSyntax : BOOLEAN]

DmarcSamples == [found : BOOLEAN, policy : {Undefined, "none", "quarantine", "reject"}]

\* computeReputation({ spf, dmarc, blacklists })
callComputeReputation ==
    /\ fnPc = "called"
    /\ fnResult' = computeReputation(fnArgs.spf, fnArgs.dmarc, fnArgs.blacklists)
    /\ fnPc' = "returned"
    /\ UNCHANGED fnArgs
    /\ UNCHANGED nonFnVars

InitSpecReputation ==
    /\ ProbeIdle
    /\ CsIdle
    /\ PostIdle
    /\ NetIdle
    /\ CacheIdle
    /\ PoolIdle
    /\ AnIdle
    /\ fnArgs \in [spf : SpfSamples, dmarc : DmarcSamples, blacklists : BlacklistSamples]
    /\ fnResult = [k \in {} |-> TRUE]
    /\ fnPc = "called"

SpecReputation == InitSpecReputation /\ [][callComputeReputation]_vars

AnyIpListed(bl) == \E ip \in DOMAIN bl.ips : \E i \in DOMAIN bl.ips[ip] : bl.ips[ip][i].listed

DomainListed(bl) == \E i \in DOMAIN bl.domain : bl.domain[i].listed

\* the score of the penalty table, clamped to 0..100
ExpectedScore(a) ==
    LET raw == 100 - (IF AnyIpListed(a.blacklists) THEN 40 ELSE 0)
                   - (IF DomainListed(a.blacklists) THEN 30 ELSE 0)
                   - (IF ~a.spf.found \/ ~a.spf.validSyntax THEN 10 ELSE 0)
                   - (IF ~a.dmarc.found THEN 15
                      ELSE IF a.dmarc.policy = "none" THEN 8
                      ELSE IF a.dmarc.policy = "quarantine" THEN 2
                      ELSE 0)
    IN  IF raw < 0 THEN 0 ELSE IF raw > 100 THEN 100 ELSE raw

\* C13: the score is 100 minus the penalties of the table (40 for a listed
\* MX IP, 30 for a listed domain, 10 for SPF missing or invalid, 15 / 8 / 2
\* for DMARC missing / none / quarantine), within 0..100, and the level is
\* good from 80, fair from 60 to 79 and poor below 60.
C13_ReputationScore ==
    fnPc = "returned" =>
        /\ fnResult.score = ExpectedScore(fnArgs)
        /\ fnResult.score \in 0..100
        /\ (fnResult.level = "good") = (fnResult.score >= 80)
        /\ (fnResult.level = "fair") = (fnResult.score >= 60 /\ fnResult.score < 80)
        /\ (fnResult.level = "poor") = (fnResult.score < 60)

\* a listed MX address alone leaves the score at the fair threshold
C13_Witness ==
    /\ fnPc = "returned"
    /\ AnyIpListed(fnArgs.blacklists)
    /\ ~DomainListed(fnArgs.blacklists)
    /\ fnResult.score = 60
    /\ fnResult.level = "fair"

\* every penalty at once still leaves a positive score
LowestScore == fnPc = "returned" => fnResult.score >= 5

(***************************************************************************)
(* resolveSpf, called on its own with the TXT answer of the resolver       *)
(***************************************************************************)
MaxSpfTokens == 3
MaxIncludes == 11

\* the terms the records of the model are made of
SpfTokens ==
    { <<"a">>,
      <<"m", "x">>,
      <<"-", "a", "l", "l">>,
      <<"+", "a", "l", "l">>,
      <<"a", "l", "l">>,
      <<"~", "a", "l", "l">>,
      <<"i", "p", "4", ":", "1", ".", "2">>,
      <<"i", "n", "c", "l", "u", "d", "e", ":", "x", ".", "c", "o">>,
      <<"i", "n", "c", "l", "u", "d", "e", ":", "s", "p", "f", ".", "x">>,
      <<"r", "e", "d", "i", "r", "e", "c", "t", "=", "x", ".", "c", "o">>,
      <<"f", "o", "o">>,
      <<"i", "n", "c", "l", "u", "d", "e", ":", "m", "a", "l", "l">> }

\* v=spf1 followed by the terms of l, one space before each
RECURSIVE JoinTerms(_)
JoinTerms(l) ==
    IF Len(l) = 0 THEN SpfPrefix
    ELSE JoinTerms(SubSeq(l, 1, Len(l) - 1)) \o <<" ">> \o l[Len(l)]

\* records written out: other separators, capitals, the remaining keywords
SpfExamples ==
    { <<"v", "=", "s", "p", "f", "1", " ", "i", "n", "c", "l", "u", "d", "e", ":", "s", "p", "f", ".", "e", "x", "a", "m", "p", "l", "e", ".", "c", "o", "m", " ", "-", "a", "l", "l">>,
      <<"v", "=", "s", "p", "f", "1", " ", "+", "a", "l", "l">>,
      <<"v", "=", "s", "p", "f", "1", " ", " ", "m", "x", "\t", "-", "a", "l", "l">>,
      <<"V", "=", "S", "P", "F", "1", " ", "M", "X", " ", "?", "A", "L", "L">>,
      <<"v", "=", "s", "p", "f", "1", " ", "e", "x", "i", "s", "t", "s", ":", "x", " ", "p", "t", "r", " ", "i", "p", "6", ":", "1", ":", ":", "2", " ", "-", "a", "l", "l">>,
      <<"v", "=", "s", "p", "f", "1", "0", " ", "-", "a", "l", "l">>,
      <<"v", "=", "s", "p", "f", "1", " ", "a", ":", "x", ".", "c", "o", " ", "-", "a", "l", "l">> }

SpfRecords ==
    { JoinTerms(l) : l \in UNION { [1..k -> SpfTokens] : k \in 0..MaxSpfTokens } }
    \cup { JoinTerms([i \in 1..k |-> <<"i", "n", "c", "l", "u", "d", "e", ":", "x">>] \o <<<<"-", "a", "l", "l">>>>) : k \in 0..MaxIncludes }
    \cup SpfExamples

\* await resolveSpf(domain)
callResolveSpf ==
    /\ fnPc = "called"
    /\ fnResult' = resolveSpf(fnArgs)
    /\ fnPc' = "returned"
    /\ UNCHANGED fnArgs
    /\ UNCHANGED nonFnVars

InitSpecSpf ==
    /\ ProbeIdle
    /\ CsIdle
    /\ PostIdle
    /\ NetIdle
    /\ CacheIdle
    /\ PoolIdle
    /\ AnIdle
    /\ fnArgs \in { [kind |-> "record", record |-> r] : r \in SpfRecords }
                  \cup { [kind |-> k] : k \in LookupKinds \ {"record"} }
    /\ fnResult = [k \in {} |-> TRUE]
    /\ fnPc = "called"

SpecSpf == InitSpecSpf /\ [][callResolveSpf]_vars

\* t is a term of the restricted grammar: an optional qualifier, then a
\* keyword, or a keyword that takes a value and at least one more character
GrammarTerm(t) ==
    LET m == IF Len(t) > 0 /\ t[1] \in Qualifiers THEN Tail(t) ELSE t
    IN  \/ \E w \in SpfWords : Len(m) = Len(w) /\ StartsWithAt(m, 1, w)
        \/ \E w \in SpfPrefixes : Len(m) > Len(w) /\ StartsWithAt(m, 1, w)

\* r is v=spf1 followed by whitespace-separated terms of the grammar
InGrammar(r) ==
    LET pieces == SplitSpaces(r, <<>>)
    IN  /\ Len(pieces[1]) = Len(SpfPrefix)
        /\ StartsWithAt(pieces[1], 1, SpfPrefix)
        /\ \A k \in 2..Len(pieces) : GrammarTerm(pieces[k])

HasIssue(res, sev, summary) ==
    \E k \in 1..Len(res.issues) : res.issues[k] = Issue(sev, summary)

AllIssues ==
    { Issue("warning", "No all mechanism at the end"),
      Issue("error", "SPF ends with +all (permits anything)") }

SpfReturned == fnPc = "returned" /\ fnArgs.kind = "record"

\* C14: validSyntax is true for every record made of terms of the restricted
\* grammar and false, with an error issue, for every record that holds a term
\* outside it; 'v=spf1 include:spf.example.com -all' gives validSyntax true,
\* allMechanism '-all' and no issue about the all mechanism.
C14_ValidSyntaxIsGrammar ==
    SpfReturned =>
        /\ fnResult.validSyntax = InGrammar(fnArgs.record)
        /\ ~fnResult.validSyntax => HasIssue(fnResult, "error", "SPF syntax looks invalid")
        /\ fnArgs.record = <<"v", "=", "s", "p", "f", "1", " ", "i", "n", "c", "l", "u", "d", "e", ":", "s", "p", "f", ".", "e", "x", "a", "m", "p", "l", "e", ".", "c", "o", "m", " ", "-", "a", "l", "l">> =>
              /\ fnResult.validSyntax
              /\ Has(fnResult, "allMechanism") /\ fnResult.allMechanism = <<"-", "a", "l", "l">>
              /\ \A k \in 1..Len(fnResult.issues) : fnResult.issues[k] \notin AllIssues

\* a value of r holds the letter s
ValueWithS(r) ==
    \E k \in 1..Len(r) : LowerChar(r[k]) = "s" /\ \E j \in 1..(k - 1) : r[j] \in {":", "="} /\ j > Len(SpfPrefix)

\* a keyword that takes a value occurs in r
TakesValue(r) == \E q \in 1..Len(r) : \E w \in SpfPrefixes : StartsWithAt(r, q, w)

\* what does hold: the syntax issue is there exactly when validSyntax is
\* false, a record of the grammar without the letter s in its values is
\* valid, and a record without value keywords is valid only if in the grammar
SyntaxOfPlainRecords ==
    SpfReturned =>
        /\ fnResult.validSyntax = ~HasIssue(fnResult, "error", "SPF syntax looks invalid")
        /\ (InGrammar(fnArgs.record) /\ ~ValueWithS(fnArgs.record)) => fnResult.validSyntax
        /\ (fnResult.validSyntax /\ ~TakesValue(fnArgs.record)) => InGrammar(fnArgs.record)

\* a term outside the grammar that the expression lets through
JunkAccepted == ~(SpfReturned /\ fnResult.validSyntax /\ ~InGrammar(fnArgs.record))

\* t is an all mechanism: all with an optional qualifier
AllTerm(t) ==
    LET m == IF Len(t) > 0 /\ t[1] \in Qualifiers THEN Tail(t) ELSE t
    IN  Len(m) = 3 /\ StartsWithAt(m, 1, <<"a", "l", "l">>)

\* t is an include mechanism with an optional qualifier
IncludeTerm(t) ==
    LET m == IF Len(t) > 0 /\ t[1] \in Qualifiers THEN Tail(t) ELSE t
    IN  StartsWithAt(m, 1, <<"i", "n", "c", "l", "u", "d", "e", ":">>)

\* the terms of a record, v=spf1 left out
Terms(r) == Tail(SplitSpaces(r, <<>>))

\* the issues about all and include that the rules give for the record r
ExpectedAllIssues(r) ==
    LET alls == SelectSeq(Terms(r), AllTerm)
    IN  (IF Len(alls) = 0 THEN {Issue("warning", "No all mechanism at the end")}
         ELSE IF alls[1][1] \in {"+", "a", "A"}
         THEN {Issue("error", "SPF ends with +all (permits anything)")}
         ELSE {})
        \cup (IF Len(SelectSeq(Terms(r), IncludeTerm)) > 10
              THEN {Issue("warning", "Too many include mechanisms")}
              ELSE {})

GuidanceIssues == AllIssues \cup {Issue("warning", "Too many include mechanisms")}

\* C15: for a found record the +all error is there exactly when its all
\* mechanism is all or +all, the no-all warning exactly when it has no all
\* mechanism, neither for -all, ~all and ?all, and the include warning exactly
\* when it has more than 10 include mechanisms; 'v=spf1 +all' gives
\* validSyntax true, allMechanism '+all' and the +all error.
C15_AllAndIncludeIssues ==
    SpfReturned =>
        /\ Range(fnResult.issues) \cap GuidanceIssues = ExpectedAllIssues(fnArgs.record)
        /\ fnArgs.record = <<"v", "=", "s", "p", "f", "1", " ", "+", "a", "l", "l">> =>
              /\ fnResult.validSyntax
              /\ Has(fnResult, "allMechanism") /\ fnResult.allMechanism = <<"+", "a", "l", "l">>
              /\ HasIssue(fnResult, "error", "SPF ends with +all (permits anything)")

\* every term of r that ends in all is an all mechanism
OnlyAllEndsInAll(r) ==
    \A k \in 1..Len(Terms(r)) : EndsWithAll(Terms(r)[k]) => AllTerm(Terms(r)[k])

\* what does hold: the same, for records in which no other term ends in all
AllAndIncludeIssuesOfPlainRecords ==
    (SpfReturned /\ OnlyAllEndsInAll(fnArgs.record)) =>
        /\ Range(fnResult.issues) \cap GuidanceIssues = ExpectedAllIssues(fnArgs.record)
        /\ fnArgs.record = <<"v", "=", "s", "p", "f", "1", " ", "+", "a", "l", "l">> =>
              /\ fnResult.validSyntax
              /\ Has(fnResult, "allMechanism") /\ fnResult.allMechanism = <<"+", "a", "l", "l">>
              /\ HasIssue(fnResult, "error", "SPF ends with +all (permits anything)")

\* records with 10 and with 11 include mechanisms are both analysed
IncludeLimitReached ==
    ~(SpfReturned /\ HasIssue(fnResult, "warning", "Too many include mechanisms"))

(***************************************************************************)
(* resolveDmarc, called on its own with the TXT answer of the resolver     *)
(***************************************************************************)
\* the tags the records of the model are made of; <<>> leaves the tag out
PTags ==
    { <<>>,
      <<"p", "=", "r", "e", "j", "e", "c", "t">>,
      <<"p", "=", "n", "o", "n", "e">>,
      <<"p", "=", "Q", "u", "a", "r", "a", "n", "t", "i", "n", "e">>,
      <<"p", "=", "b", "o", "g", "u", "s">>,
      <<"p", " ", "=", " ", "r", "e", "j", "e", "c", "t">>,
      <<"P", "=", "n", "o", "n", "e">> }

PctTags ==
    { <<>>,
      <<"p", "c", "t", "=", "5", "0">>,
      <<"p", "c", "t", "=", "1", "5", "0">>,
      <<"p", "c", "t", "=", "-", "5">>,
      <<"p", "c", "t", "=", "a", "b", "c">>,
      <<"p", "c", "t", "=", "1", "2", ".", "5">>,
      <<"p", "c", "t", "=", "0">> }

ReportTags ==
    { <<>>,
      <<"r", "u", "a", "=", "m", "a", "i", "l", "t", "o", ":", "a", "@", "x", ".", "c", "o", "m", ",", "m", "a", "i", "l", "t", "o", ":", "b", "@", "x", ".", "c", "o", "m">>,
      <<"r", "u", "f", "=", "m", ":", "b", ",", " ", "m", ":", "a">> }

AdkimTags == { <<>>, <<"a", "d", "k", "i", "m", "=", "s">> }

AspfTags == { <<>>, <<"a", "s", "p", "f", "=", "s">> }

\* v=DMARC1 followed by the tags of l that are not left out, sep between
RECURSIVE JoinTags(_, _)
JoinTags(l, sep) ==
    IF Len(l) = 0 THEN <<"v", "=", "D", "M", "A", "R", "C", "1">>
    ELSE JoinTags(SubSeq(l, 1, Len(l) - 1), sep)
         \o (IF Len(l[Len(l)]) > 0 THEN sep \o l[Len(l)] ELSE <<>>)

DmarcRecords ==
    { JoinTags(<<p, pct, r, adkim, aspf>>, sep) :
        p \in PTags, pct \in PctTags, r \in ReportTags, adkim \in AdkimTags,
        aspf \in AspfTags, sep \in { <<";">>, <<";", " ">> } }

\* await resolveDmarc(domain)
callResolveDmarc ==
    /\ fnPc = "called"
    /\ fnResult' = resolveDmarc(fnArgs)
    /\ fnPc' = "returned"
    /\ UNCHANGED fnArgs
    /\ UNCHANGED nonFnVars

InitSpecDmarc ==
    /\ ProbeIdle
    /\ CsIdle
    /\ PostIdle
    /\ NetIdle
    /\ CacheIdle
    /\ PoolIdle
    /\ AnIdle
    /\ fnArgs \in { [kind |-> "record", record |-> r] : r \in DmarcRecords }
                  \cup { [kind |-> k] : k \in LookupKinds \ {"record"} }
    /\ fnResult = [k \in {} |-> TRUE]
    /\ fnPc = "called"

SpecDmarc == InitSpecDmarc /\ [][callResolveDmarc]_vars

\* the parts of the record r, each cut at its first = into a tag name and a
\* value, blanks around either removed
TagsOf(r) ==
    LET parts == TrimAll(SplitOn(r, ";", <<>>))
    IN  { [name |-> ToLowerCase(Trim(SplitOn(parts[i], "=", <<>>)[1])),
           value |-> Trim(JoinWith(Tail(SplitOn(parts[i], "=", <<>>)), "="))] :
          i \in 1..Len(parts) }

HasTag(r, name) == \E t \in TagsOf(r) : t.name = name

\* the value of the tag name of r (each tag occurs at most once in the model)
TagValue(r, name) == (CHOOSE t \in TagsOf(r) : t.name = name).value

DmarcReturned == fnPc = "returned" /\ fnArgs.kind = "record"

DmarcExample == <<"v", "=", "D", "M", "A", "R", "C", "1", ";", " ", "p", "=", "r", "e", "j", "e", "c", "t", ";", " ", "p", "c", "t", "=", "5", "0", ";", " ", "r", "u", "a", "=", "m", "a", "i", "l", "t", "o", ":", "a", "@", "x", ".", "c", "o", "m", ",", "m", "a", "i", "l", "t", "o", ":", "b", "@", "x", ".", "c", "o", "m">>

\* policy is set iff the p tag is none, quarantine or reject in any case,
\* and the result warns of no valid policy otherwise
PolicyFollowsTag ==
    LET valid == HasTag(fnArgs.record, <<"p">>)
                    /\ ToLowerCase(TagValue(fnArgs.record, <<"p">>)) \in Policies
    IN  /\ (fnResult.policy # Undefined) = valid
        /\ valid => fnResult.policy = PolicyName(ToLowerCase(TagValue(fnArgs.record, <<"p">>)))
        /\ HasIssue(fnResult, "warning", "No valid policy (p) found") = ~valid

\* the pct of the numeric pct values of the model
PctExpected ==
    { [value |-> <<"5", "0">>, pct |-> 50], [value |-> <<"1", "5", "0">>, pct |-> 100],
      [value |-> <<"-", "5">>, pct |-> 0], [value |-> <<"0">>, pct |-> 0] }

\* pct is an integer of 0..100, a whole number out of range being clamped
PctClamped ==
    /\ Has(fnResult, "pct") => fnResult.pct \in 0..100
    /\ \A e \in PctExpected :
          (HasTag(fnArgs.record, <<"p", "c", "t">>) /\ TagValue(fnArgs.record, <<"p", "c", "t">>) = e.value)
              => (Has(fnResult, "pct") /\ fnResult.pct = e.pct)

\* the rest of the claim: alignment defaults, report URIs, the none warning
DmarcRest ==
    /\ ~HasTag(fnArgs.record, <<"a", "d", "k", "i", "m">>) => fnResult.alignment.adkim = <<"r">>
    /\ ~HasTag(fnArgs.record, <<"a", "s", "p", "f">>) => fnResult.alignment.aspf = <<"r">>
    /\ HasTag(fnArgs.record, <<"r", "u", "a">>) =>
          /\ Has(fnResult, "rua")
          /\ fnResult.rua = << <<"m", "a", "i", "l", "t", "o", ":", "a", "@", "x", ".", "c", "o", "m">>,
                               <<"m", "a", "i", "l", "t", "o", ":", "b", "@", "x", ".", "c", "o", "m">> >>
    /\ HasTag(fnArgs.record, <<"r", "u", "f">>) =>
          /\ Has(fnResult, "ruf")
          /\ fnResult.ruf = << <<"m", ":", "b">>, <<"m", ":", "a">> >>
    /\ HasIssue(fnResult, "warning", "DMARC policy is none") = (fnResult.policy = "none")
    /\ fnArgs.record = DmarcExample =>
          /\ fnResult.policy = "reject"
          /\ fnResult.pct = 50
          /\ ~HasIssue(fnResult, "warning", "DMARC policy is none")

\* C16: for every DMARC record found, policy is set iff the p tag is none,
\* quarantine or reject (in any case) and a 'No valid policy' warning is added
\* otherwise; pct, when defined, is an integer of 0..100; adkim and aspf are r
\* when their tag is absent; rua and ruf are the URIs in order; the 'DMARC
\* policy is none' warning is there iff policy is none; the example record
\* gives policy reject, pct 50, both URIs and no such warning.
C16_DmarcParsed == DmarcReturned => (PolicyFollowsTag /\ PctClamped /\ DmarcRest)

\* no tag name of r is followed by a blank
NoBlankBeforeEquals(r) == \A k \in 2..Len(r) : r[k] = "=" => r[k - 1] # " "

\* what does hold: the same, for records without a blank before an = sign
DmarcParsedWithoutBlanks ==
    (DmarcReturned /\ NoBlankBeforeEquals(fnArgs.record)) =>
        (PolicyFollowsTag /\ PctClamped /\ DmarcRest)

\* and the parts of the claim other than the policy hold for every record
DmarcParsedButPolicy == DmarcReturned => (PctClamped /\ DmarcRest)

\* values out of range and fractions reach both ends of the clamp
PctClampReached ==
    ~(DmarcReturned /\ Has(fnResult, "pct") /\ fnResult.pct = 100
        /\ HasTag(fnArgs.record, <<"p", "c", "t">>) /\ TagValue(fnArgs.record, <<"p", "c", "t">>) = <<"1", "5", "0">>)

(***************************************************************************)
(* The resolvers of POST, each called on its own with every end of its     *)
(* lookups                                                                 *)
(***************************************************************************)
FetchEnds == {"record", "empty", "error", "timeout"}

\* every end of the lookups of resolver x: the ends of the analysis runs and
\* the empty answers, errors, timeouts and fetch failures left out there
AllOutcomes(x) ==
    CASE x = "mx"     -> Outcomes(x) \cup { [kind |-> "timeout"] }
      [] x = "bimi"   -> { [kind |-> "record", fetch |-> f] : f \in FetchEnds \cup {"none"} }
                         \cup { [kind |-> k, fetch |-> "none"] : k \in LookupKinds \ {"record"} }
      [] x = "mtasts" -> { [kind |-> k, fetch |-> f,
                            mode |-> IF f = "record" THEN "enforce" ELSE Undefined] :
                           k \in LookupKinds, f \in FetchEnds }
      [] x = "dkim"   -> { [kind |-> k] : k \in {"record", "empty", "error"} }
      [] OTHER        -> Outcomes(x) \cup { [kind |-> k] : k \in LookupKinds \ {"record"} }

\* one of the calls of Promise.all([...]) in POST, and its return value
callResolver ==
    /\ fnPc = "called"
    /\ fnResult' = IF fnArgs.x = "dkim" /\ Len(fnArgs.locals.dkimSelector) = 0
                   THEN DkimNotChecked
                   ELSE ResolverResult(fnArgs.x, fnArgs.o, fnArgs.locals)
    /\ fnPc' = "returned"
    /\ UNCHANGED fnArgs
    /\ UNCHANGED nonFnVars

InitSpecResolve ==
    /\ ProbeIdle
    /\ CsIdle
    /\ PostIdle
    /\ NetIdle
    /\ CacheIdle
    /\ PoolIdle
    /\ AnIdle
    /\ fnArgs \in { [x |-> x, o |-> o, locals |-> Locals(b)] :
                      x \in Resolvers, o \in UNION { AllOutcomes(y) : y \in Resolvers },
                      b \in PostBodies }
    /\ fnArgs.o \in AllOutcomes(fnArgs.x)
    /\ fnResult = [k \in {} |-> TRUE]
    /\ fnPc = "called"

SpecResolve == InitSpecResolve /\ [][callResolver]_vars

PolicyResolvers == {"mx", "spf", "dmarc", "dkim", "bimi", "tlsrpt"}

\* the issues that explain a missing MTA-STS TXT record, and a missing policy
MtastsTxtIssues ==
    { Issue("warning", "No MTA-STS TXT found"), Issue("error", "Failed to resolve MTA-STS TXT") }

MtastsPolicyIssues ==
    { Issue("warning", "Failed to fetch MTA-STS policy"),
      Issue("error", "Error fetching MTA-STS policy") }

\* C18: whatever the end of its lookups (record, empty answer, resolver
\* error, timeout, fetch failure), a policy result with found = false (mx,
\* spf, dmarc, dkim, bimi, tlsrpt) carries at least one issue, and so does
\* each MTA-STS half with foundTxt = false or foundPolicy = false.
C18_AbsenceIsExplained ==
    fnPc = "returned" =>
        /\ (fnArgs.x \in PolicyResolvers /\ ~fnResult.found) => Len(fnResult.issues) >= 1
        /\ fnArgs.x = "mtasts" =>
              /\ ~fnResult.foundTxt => Range(fnResult.issues) \cap MtastsTxtIssues # {}
              /\ ~fnResult.foundPolicy => Range(fnResult.issues) \cap MtastsPolicyIssues # {}

\* an empty TLS-RPT answer is returned with its warning
C18_Witness ==
    /\ fnPc = "returned"
    /\ fnArgs.x = "tlsrpt"
    /\ fnArgs.o.kind = "empty"
    /\ ~fnResult.found
    /\ fnResult.issues = <<Issue("warning", "No TLS-RPT record found")>>

\* both MTA-STS halves missing gives an issue for each
BothHalvesMissing ==
    (fnPc = "returned" /\ fnArgs.x = "mtasts" /\ ~fnResult.foundTxt /\ ~fnResult.foundPolicy)
        => Len(fnResult.issues) = 2

\* the same in the reports of the analysis runs
ReportAbsenceIsExplained ==
    (postPc = "responded" /\ response.status = 200) =>
        /\ \A x \in PolicyResolvers : ~response.body[x].found => Len(response.body[x].issues) >= 1
        /\ ~response.body["mtasts"].foundTxt =>
              Range(response.body["mtasts"].issues) \cap MtastsTxtIssues # {}
        /\ ~response.body["mtasts"].foundPolicy =>
              Range(response.body["mtasts"].issues) \cap MtastsPolicyIssues # {}

(***************************************************************************)
(* resolveMxWithGeo, called on its own with the MX answer of the resolver  *)
(***************************************************************************)
\* the lists of distinct members of the set S
Arrangements(S) ==
    { l \in UNION { [1..n -> S] : n \in 0..Cardinality(S) } :
        \A i, j \in 1..Len(l) : i # j => l[i] # l[j] }

\* the answers of the resolver: up to MaxMx records in any order
MxAnswers == Arrangements({ MxRecord(k) : k \in 1..MaxMx })

\* mxHostLimit: left out, or a value the schema accepts
MxHostLimits == {Empty} \cup { [mxHostLimit |-> k] : k \in {1, 2, 3, 10} }

\* await resolveMxWithGeo(domain, mxHostLimit)
callResolveMx ==
    /\ fnPc = "called"
    /\ fnResult' = resolveMxWithGeo(fnArgs.o, fnArgs.b)
    /\ fnPc' = "returned"
    /\ UNCHANGED fnArgs
    /\ UNCHANGED nonFnVars

InitSpecMx ==
    /\ ProbeIdle
    /\ CsIdle
    /\ PostIdle
    /\ NetIdle
    /\ CacheIdle
    /\ PoolIdle
    /\ AnIdle
    /\ fnArgs \in [o : { [kind |-> "record", records |-> a] : a \in MxAnswers },
                   b : MxHostLimits]
    /\ fnResult = [k \in {} |-> TRUE]
    /\ fnPc = "called"

SpecMx == InitSpecMx /\ [][callResolveMx]_vars

Ascending(l) == \A i, j \in 1..Len(l) : i < j => l[i].priority <= l[j].priority

\* the number of records the report is to hold
ExpectedCount(a, b) ==
    IF Has(b, "mxHostLimit") /\ b.mxHostLimit < Len(a) THEN b.mxHostLimit ELSE Len(a)

\* C19: mx.records is sorted by ascending priority, and with mxHostLimit = k
\* it holds exactly the min(k, n) records of lowest priority value among the
\* n records the resolver returned.
C19_SortedAndLimited ==
    fnPc = "returned" =>
        LET answer == fnArgs.o.records
            records == fnResult.records
        IN  /\ Ascending(records)
            /\ Len(records) = ExpectedCount(answer, fnArgs.b)
            /\ Cardinality(Range(records)) = Len(records)
            /\ Range(records) \subseteq Range(answer)
            /\ \A r \in Range(answer) \ Range(records) :
                  \A q \in Range(records) : q.priority <= r.priority

\* an answer out of order and longer than the limit has been cut and sorted
C19_Witness ==
    /\ fnPc = "returned"
    /\ ~Ascending(fnArgs.o.records)
    /\ Has(fnArgs.b, "mxHostLimit")
    /\ fnArgs.b.mxHostLimit = 2
    /\ Len(fnArgs.o.records) = 4
    /\ Len(fnResult.records) = 2
    /\ fnResult.records[1].priority = 10

\* the same in the reports of the analysis runs
ReportMxAscending ==
    (postPc = "responded" /\ response.status = 200) => Ascending(response.body["mx"].records)

(***************************************************************************)
(* The cache: getCached, setCached and the clock                           *)
(***************************************************************************)
MaxClock == 4
MaxTtl == 2

CacheKeys == {"a:mx1", "geo:192.0.2.1"}

CacheValues == {"v1", "v2"}

\* an entry read exactly at its expiry time counts as expired
Expired_AtExpiry(entry, t) == entry.expiresAt <= t

\* entry.expiresAt < Date.now()
Expired(entry, t) == entry.expiresAt < t

\* f without the key k
Without(f, k) == [x \in DOMAIN f \ {k} |-> f[x]]

\* setCached(key, value, ttlMs)
setCached(key, value, ttlMs) ==
    /\ cache' = (key :> [value |-> value, expiresAt |-> now + ttlMs]) @@ cache
    /\ cacheLog' = (key :> [value |-> value, at |-> now, ttl |-> ttlMs]) @@ cacheLog
    /\ cacheRet' = [op |-> "set", key |-> key, value |-> Undefined]
    /\ UNCHANGED now
    /\ UNCHANGED nonCacheVars

\* getCached(key)
getCached(key) ==
    /\ IF key \notin DOMAIN cache
       THEN /\ cacheRet' = [op |-> "get", key |-> key, value |-> Undefined]
            /\ UNCHANGED cache
       ELSE IF Expired(cache[key], now)
       THEN /\ cache' = Without(cache, key)
            /\ cacheRet' = [op |-> "get", key |-> key, value |-> Undefined]
       ELSE /\ cacheRet' = [op |-> "get", key |-> key, value |-> cache[key].value]
            /\ UNCHANGED cache
    /\ UNCHANGED <<now, cacheLog>>
    /\ UNCHANGED nonCacheVars

\* time passes between two calls
clockAdvances ==
    /\ now < MaxClock
    /\ now' = now + 1
    /\ UNCHANGED <<cache, cacheLog, cacheRet>>
    /\ UNCHANGED nonCacheVars

InitSpecCache == ProbeIdle /\ CsIdle /\ PostIdle /\ NetIdle /\ FnIdle /\ CacheIdle /\ PoolIdle /\ AnIdle

NextCache ==
    \/ \E k \in CacheKeys, v \in CacheValues, t \in 0..MaxTtl : setCached(k, v, t)
    \/ \E k \in CacheKeys : getCached(k)
    \/ clockAdvances

SpecCache == InitSpecCache /\ [][NextCache]_vars

\* what a get of key k at the present time is to return: the value of the
\* last set of k if the time has not passed that call's time + ttl
ExpectedGet(k) ==
    IF k \in DOMAIN cacheLog /\ now <= cacheLog[k].at + cacheLog[k].ttl
    THEN cacheLog[k].value
    ELSE Undefined

\* the step is a call of getCached that has just returned
GetReturns == cacheRet'.op = "get" /\ now' = now /\ cacheLog' = cacheLog

\* C20: after any sequence of sets, gets and clock advances, a get of k
\* returns the value of the most recent set of k while the time has not
\* passed that call's time + ttl and absent otherwise; a get that sees an
\* expired entry removes it, and a get changes neither a non-expired entry
\* nor any other key.
C20_CacheRoundTrip ==
    [][GetReturns =>
          /\ cacheRet'.value = ExpectedGet(cacheRet'.key)
          /\ \A k \in DOMAIN cache :
                IF k = cacheRet'.key /\ cache[k].expiresAt < now
                THEN k \notin DOMAIN cache'
                ELSE k \in DOMAIN cache' /\ cache'[k] = cache[k]
          /\ DOMAIN cache' \subseteq DOMAIN cache]_vars

\* a get at the very end of the ttl has returned the value set, while the
\* other key stays cached
C20_Witness ==
    /\ cacheRet.op = "get"
    /\ cacheRet.key \in DOMAIN cacheLog
    /\ cacheLog[cacheRet.key].ttl > 0
    /\ now = cacheLog[cacheRet.key].at + cacheLog[cacheRet.key].ttl
    /\ cacheRet.value = cacheLog[cacheRet.key].value
    /\ DOMAIN cache = CacheKeys

\* an expired entry stays in the map until a get of its key
LazyEviction ==
    \A k \in DOMAIN cacheLog :
        k \notin DOMAIN cache => now > cacheLog[k].at + cacheLog[k].ttl

\* a get has removed an expired entry
EvictionReached == ~(cacheRet.op = "get" /\ cacheRet.key \in DOMAIN cacheLog /\ cacheRet.key \notin DOMAIN cache)

(***************************************************************************)
(* resolveMtasts: the two halves                                           *)
(***************************************************************************)
MtastsReturned == fnPc = "returned" /\ fnArgs.x = "mtasts"

\* each half of the result is set by the end of its own lookup alone
HalvesIndependent ==
    /\ fnResult.foundTxt = (fnArgs.o.kind = "record")
    /\ fnResult.foundPolicy = (fnArgs.o.fetch = "record")
    /\ fnResult.mode = (IF fnArgs.o.fetch = "record" THEN fnArgs.o.mode ELSE Undefined)
    /\ Range(fnResult.issues) \cap MtastsTxtIssues # {} <=> fnArgs.o.kind # "record"
    /\ Range(fnResult.issues) \cap MtastsPolicyIssues # {} <=> fnArgs.o.fetch # "record"

\* C21: the TXT check and the policy check of resolveMtasts are independent,
\* and whenever either is absent (the TXT name does not exist or holds no
\* record, the policy file cannot be fetched) the issue added for it has
\* severity warning, never error.
C21_MtastsAbsenceIsWarning ==
    MtastsReturned =>
        /\ HalvesIndependent
        /\ (~fnResult.foundTxt \/ ~fnResult.foundPolicy) =>
              \A k \in 1..Len(fnResult.issues) : fnResult.issues[k].severity = "warning"

\* what does hold: the halves are independent, an empty TXT answer and a
\* response that is not ok give a warning, and a lookup or fetch that throws
\* or times out gives an error
MtastsSeverityByEnd ==
    MtastsReturned =>
        /\ HalvesIndependent
        /\ fnArgs.o.kind = "empty" => HasIssue(fnResult, "warning", "No MTA-STS TXT found")
        /\ fnArgs.o.fetch = "empty" => HasIssue(fnResult, "warning", "Failed to fetch MTA-STS policy")
        /\ Failed(fnArgs.o) => HasIssue(fnResult, "error", "Failed to resolve MTA-STS TXT")
        /\ fnArgs.o.fetch \in {"error", "timeout"} =>
              HasIssue(fnResult, "error", "Error fetching MTA-STS policy")

(***************************************************************************)
(* checkStarttls: connections that fail                                    *)
(***************************************************************************)
Warned(e) == \E i \in 1..Len(e.issues) : e.issues[i].severity = "warning"

\* C22: when the connection to a host and port cannot be established or
\* breaks at the transport level, checks holds a record for that host and
\* port with connectOk false and at least one warning issue describing the
\* failure, and the analysis goes on with the remaining targets.
C22_ConnectFailureIsWarned ==
    /\ \A k \in 1..Len(checks) :
          /\ checks[k].host = calls[k].host
          /\ ~checks[k].connectOk => Warned(checks[k])
    /\ (csPc = "returned" /\ ~csOpts.quickTest) => Len(checks) = FullModeHosts * PortCount

\* what does hold: a probe that resolves after a refused connection gives a
\* record with connectOk false and no issue, the warning being that of a
\* call that threw; either way the loops go on
ConnectFailureIsRecorded ==
    /\ \A k \in 1..Len(checks) :
          /\ checks[k].host = calls[k].host
          /\ Warned(checks[k]) = Throws(calls[k])
          /\ Throws(calls[k]) => ~checks[k].connectOk
    /\ (csPc = "returned" /\ ~csOpts.quickTest) => Len(checks) = FullModeHosts * PortCount

\* a refused connection has been recorded without an issue, and the next
\* target probed
RefusedThenNext ==
    ~(Len(checks) >= 2 /\ ~checks[1].connectOk /\ checks[1].issues = <<>>
        /\ checks[2].connectOk)

(***************************************************************************)
(* retryOperation                                                          *)
(***************************************************************************)
\* the call sites whose operation runs under retryOperation(..., 2, ...)
TwoRetries == {"dnsResolveMx", "dnsResolveTxt", "dnsResolve4Safe", "mtastsFetch"}

\* the invocations of op made so far
Invocations == IF netPc \in {"inflight", "settled"} THEN netAttempt + 1 ELSE Len(netLog)

\* C23: retryOperation(op, retries, base) invokes op at most retries + 1
\* times, returns the result of the first successful invocation without
\* invoking op again, waits base * 2^i before attempt i + 1 and not after the
\* last failure, and rejects with the error of the last attempt when all
\* fail; the MX, TXT and A lookups and the MTA-STS policy fetch run under it
\* with 2 retries, at most 3 attempts each.
C23_RetryOperation ==
    /\ Invocations <= Retries(netCall) + 1
    /\ netCall \in TwoRetries => Retries(netCall) = 2 /\ Invocations <= 3
    /\ \A k \in 1..Len(netLog) :
          netLog[k] = "ok" => (k = Len(netLog) /\ netPc = "settled" /\ netResult = "ok")
    /\ netResult = "ok" => netLog[Len(netLog)] = "ok" /\ Invocations = Len(netLog)
    /\ \A i \in 1..Len(netWaits) :
          /\ i <= Retries(netCall)
          /\ netLog[i] # "ok"
          /\ netWaits[i] = IF i = 1 THEN BaseDelayMs(netCall)
                           ELSE IF i = 2 THEN 2 * BaseDelayMs(netCall)
                           ELSE 4 * BaseDelayMs(netCall)
    /\ Len(netWaits) = Len(netLog) - (IF netPc = "settled" THEN 1 ELSE 0)
    /\ netResult = "failed" =>
          /\ netPc = "settled"
          /\ Len(netLog) = Retries(netCall) + 1
          /\ \A k \in 1..Len(netLog) : netLog[k] # "ok"
          /\ lastErr = netLog[Len(netLog)]

\* an MX lookup has failed three times, by an error at first and by the
\* timer at last, after waits of 200 and 400 ms
C23_Witness ==
    /\ netCall = "dnsResolveMx"
    /\ netPc = "settled"
    /\ netResult = "failed"
    /\ netLog = <<"error", "error", "timeout">>
    /\ netWaits = <<200, 400>>
    /\ lastErr = "timeout"

\* the second attempt of a lookup succeeds and is the last
SecondAttemptReturned ==
    ~(netPc = "settled" /\ netResult = "ok" /\ Len(netLog) = 2 /\ netWaits = <<200>>)

(***************************************************************************)
(* mapLimit, as resolveBlacklists calls it over the MX addresses           *)
(***************************************************************************)
MaxIps == 3
MaxLists == 2

\* what a step of the pool leaves alone (it reads and writes the cache)
nonPoolVars == <<probeVars, csVars, postVars, netVars, fnVars, anVars, now, cacheLog, cacheRet>>

\* the `limit` arguments: 5 as resolveBlacklists passes, and one below the
\* number of items
PoolLimits == {2, 5}

\* uniqueIps: up to n addresses, in either order
IpArrangements(n) ==
    {[i \in 1..m |-> i] : m \in 0..n} \cup {[i \in 1..m |-> m + 1 - i] : m \in 2..n}

\* ipLists, by position
IpLists == 1..MaxLists

\* const key = `rbl:ip:${host}` with host = `${reversed}.${list}`
RblIpKey(ip, list) == <<"rbl:ip", ip, list>>

\* how a DNSBL query ends for dnsblListed: an answer with an A record, an
\* empty answer or an error, or the timer of withTimeout
QueryEnds == {"listed", "clean", "timeout"}

\* dnsblListed's return value
dnsblListed(end) == [listed |-> end = "listed"]

\* the listing pushed for a list
Listing(ip, list, res) == [ip |-> ip, list |-> list, listed |-> res.listed]

\* the body of fn from list k on, up to its next await: cached results are
\* pushed at once, the first key that misses needs a query
RECURSIVE RunLists(_, _, _, _)
RunLists(ip, k, listings, c) ==
    IF k > MaxLists THEN [k |-> k, listings |-> listings, cache |-> c]
    ELSE LET key == RblIpKey(ip, k) IN
         IF key \notin DOMAIN c THEN [k |-> k, listings |-> listings, cache |-> c]
         ELSE IF Expired(c[key], now)
         THEN [k |-> k, listings |-> listings, cache |-> Without(c, key)]
         ELSE RunLists(ip, k + 1, Append(listings, Listing(ip, k, c[key].value)), c)

\* a worker's state after fn ran from list k on
Running(current, r) ==
    [pc |-> IF r.k > MaxLists THEN "fnDone" ELSE "query",
     current |-> current, k |-> r.k, listings |-> r.listings]

\* const current = idx++; if (current >= items.length) break;
\* results[current] = await fn(items[current], current)
TakeNext(w, c, res) ==
    /\ idx' = idx + 1
    /\ results' = res
    /\ IF idx >= Len(items)
       THEN /\ workers' = (w :> [pc |-> "done", current |-> idx, k |-> 0, listings |-> <<>>]) @@ workers
            /\ cache' = c
            /\ UNCHANGED invoked
       ELSE LET r == RunLists(items[idx + 1], 1, <<>>, c) IN
            /\ workers' = (w :> Running(idx, r)) @@ workers
            /\ cache' = r.cache
            /\ invoked' = [invoked EXCEPT ![idx + 1] = @ + 1]

Min(a, b) == IF a < b THEN a ELSE b

\* Array.from({ length: Math.min(limit, items.length) }, () => worker())
spawnWorker ==
    /\ mlPc = "spawning"
    /\ Len(workers) < Min(limit, Len(items))
    /\ TakeNext(Len(workers) + 1, cache, results)
    /\ UNCHANGED <<items, limit, lost, mlPc>>
    /\ UNCHANGED nonPoolVars

\* every worker has been created and is at its first await
allSpawned ==
    /\ mlPc = "spawning"
    /\ Len(workers) = Min(limit, Len(items))
    /\ mlPc' = "running"
    /\ UNCHANGED <<items, limit, idx, workers, results, invoked, lost, cache>>
    /\ UNCHANGED nonPoolVars

\* result = await dnsblListed(host); setCached(key, result, 10 * 60 * 1000);
\* listings.push(...), and on with the next list
queryEnds(w, end) ==
    /\ mlPc = "running"
    /\ workers[w].pc = "query"
    /\ LET me == workers[w]
           ip == items[me.current + 1]
           res == dnsblListed(end)
           c == (RblIpKey(ip, me.k) :> [value |-> res, expiresAt |-> now + 10 * 60 * 1000]) @@ cache
           r == RunLists(ip, me.k + 1, Append(me.listings, Listing(ip, me.k, res)), c)
       IN /\ workers' = [workers EXCEPT ![w] = Running(me.current, r)]
          /\ cache' = r.cache
    /\ lost' = IF end = "timeout" THEN lost + 1 ELSE lost
    /\ UNCHANGED <<items, limit, idx, results, invoked, mlPc>>
    /\ UNCHANGED nonPoolVars

\* the resolver ends a query whose timer had fired
lateAnswer ==
    /\ lost > 0
    /\ lost' = lost - 1
    /\ UNCHANGED <<items, limit, idx, workers, results, invoked, mlPc, cache>>
    /\ UNCHANGED nonPoolVars

\* fn has returned: ips[ip] = listings, results[current] is set and the
\* worker takes the next index
workerResumes(w) ==
    /\ mlPc = "running"
    /\ workers[w].pc = "fnDone"
    /\ TakeNext(w, cache, [results EXCEPT ![workers[w].current + 1] = workers[w].listings])
    /\ UNCHANGED <<items, limit, lost, mlPc>>
    /\ UNCHANGED nonPoolVars

\* await Promise.all(workers); return results
mapLimitReturns ==
    /\ mlPc = "running"
    /\ \A w \in 1..Len(workers) : workers[w].pc = "done"
    /\ mlPc' = "returned"
    /\ UNCHANGED <<items, limit, idx, workers, results, invoked, lost, cache>>
    /\ UNCHANGED nonPoolVars

\* mapLimit(uniqueIps, limit, fn) has been called; the cache is empty or
\* holds the result of an earlier analysis for the first address
InitSpecMapLimit ==
    /\ ProbeIdle /\ CsIdle /\ PostIdle /\ NetIdle /\ FnIdle /\ AnIdle
    /\ now = 0
    /\ cacheLog = [k \in {} |-> TRUE]
    /\ cacheRet = [op |-> "none"]
    /\ items \in IpArrangements(MaxIps)
    /\ limit \in PoolLimits
    /\ cache \in {[k \in {} |-> TRUE]} \cup
                 {(RblIpKey(1, l) :> [value |-> [listed |-> TRUE], expiresAt |-> 10 * 60 * 1000])
                     : l \in {1}}
    /\ idx = 0
    /\ workers = <<>>
    /\ results = [i \in 1..Len(items) |-> <<>>]
    /\ invoked = [i \in 1..Len(items) |-> 0]
    /\ lost = 0
    /\ mlPc = "spawning"

NextMapLimit ==
    \/ spawnWorker
    \/ allSpawned
    \/ \E w \in 1..Len(workers), end \in QueryEnds : queryEnds(w, end)
    \/ \E w \in 1..Len(workers) : workerResumes(w)
    \/ lateAnswer
    \/ mapLimitReturns

SpecMapLimit == InitSpecMapLimit /\ [][NextMapLimit]_vars

\* the invocations of fn that have not returned to their worker
InFlight == {w \in 1..Len(workers) : workers[w].pc \in {"query", "fnDone"}}

\* the DNSBL queries awaited by a worker
Awaited == {w \in 1..Len(workers) : workers[w].pc = "query"}

\* the pool itself: no more than min(limit, |items|) invocations in flight,
\* no item invoked twice, every item invoked once and results[i] the
\* listings of items[i] at the return
PoolBounded ==
    /\ Cardinality(InFlight) <= Min(limit, Len(items))
    /\ \A i \in 1..Len(items) : invoked[i] <= 1
    /\ mlPc = "returned" =>
          \A i \in 1..Len(items) :
              /\ invoked[i] = 1
              /\ Len(results[i]) = MaxLists
              /\ \A l \in IpLists : results[i][l].ip = items[i] /\ results[i][l].list = l

\* C24: mapLimit never has more than min(limit, |items|) invocations of fn
\* in flight, invokes fn exactly once per item and returns results[i] =
\* fn(items[i]); consequently at most 5 DNSBL queries are in flight at any
\* time during resolveBlacklists, across MX IPs and across lists.
C24_AtMostFiveQueries ==
    /\ PoolBounded
    /\ limit = 5 => Cardinality(Awaited) + lost <= 5

\* what does hold: the pool is bounded and the queries a worker awaits are
\* at most min(limit, |items|)
AwaitedQueriesBounded ==
    /\ PoolBounded
    /\ Cardinality(Awaited) <= Min(limit, Len(items))
    /\ Cardinality(Awaited) <= 5

\* three items under a limit of 2 have been mapped, the last one first
PoolReturned ==
    ~(mlPc = "returned" /\ limit = 2 /\ Len(items) = 3 /\ items[1] = 3)

(***************************************************************************)
(* resolveBlacklists, host by host                                         *)
(***************************************************************************)
domainLists == <<"dbl.spamhaus.org", "multi.surbl.org", "uribl.com">>

ipLists ==
    <<"zen.spamhaus.org", "sbl.spamhaus.org", "xbl.spamhaus.org", "pbl.spamhaus.org",
      "b.barracudacentral.org", "bl.spamcop.net", "dnsbl.sorbs.net", "bl.spamrats.com",
      "ips.backscatterer.org", "bl.blocklist.de", "dnsbl-1.uceprotect.net">>

\* a name left as it is
Reversed_Same(ip) == ip

\* ip.split('.').reverse().join('.'), an address being its four octets
Reversed(ip) == [i \in 1..Len(ip) |-> ip[Len(ip) + 1 - i]]

\* const host = `${name}.${list}`
DnsblHost(name, list) == <<name, list>>

\* const key = `rbl:domain:${host}` or `rbl:ip:${host}`
RblKey(type, host) == <<"rbl", type, host>>

\* let result = getCached(key); if (result === undefined) result = await
\* dnsblListed(host): w tells which hosts hold an A record and which queries
\* fail or time out, c is the cache at the time t
DnsblResult(w, c, t, type, host) ==
    LET key == RblKey(type, host) IN
    IF key \in DOMAIN c /\ ~Expired(c[key], t) THEN c[key].value
    ELSE dnsblListed(IF host \in w.silent THEN "timeout"
                     ELSE IF host \in w.listed THEN "listed" ELSE "clean")

\* { list, type, listed: result.listed, ... }
DnsblListing(list, type, res) == [list |-> list, type |-> type, listed |-> res.listed]

\* resolveBlacklists(domain, mxRecords)
resolveBlacklistsByHost(domain, records, w, c, t) ==
    [domain |-> [i \in 1..Len(domainLists) |->
                    DnsblListing(domainLists[i], "domain",
                        DnsblResult(w, c, t, "domain", DnsblHost(domain, domainLists[i])))],
     ips    |-> [ip \in UniqueIps(records) |->
                    [i \in 1..Len(ipLists) |->
                        DnsblListing(ipLists[i], "ip",
                            DnsblResult(w, c, t, "ip", DnsblHost(Reversed(ip), ipLists[i])))]],
     issues |-> <<>>]

Ip1 == <<"192", "0", "2", "1">>
Ip2 == <<"198", "51", "100", "7">>
Ip1Backwards == <<"1", "2", "0", "192">>
Ip2Backwards == <<"7", "100", "51", "198">>
TheDomain == <<"example", "com">>

\* mx.records: none, one address, an address shared by two hosts, a host
\* that resolved to nothing
BlRecords ==
    { <<>>,
      << [exchange |-> "mx1", priority |-> 10, addresses |-> <<Ip1>>] >>,
      << [exchange |-> "mx1", priority |-> 10, addresses |-> <<Ip1>>],
         [exchange |-> "mx2", priority |-> 20, addresses |-> <<Ip1, Ip2>>] >>,
      << [exchange |-> "mx1", priority |-> 10, addresses |-> <<>>] >> }

\* the DNSBL zones: which names hold an A record, which queries get no answer
BlWorlds ==
    [listed : { {},
                {DnsblHost(Ip1Backwards, ipLists[1])},
                {DnsblHost(Ip1, ipLists[1])},
                {DnsblHost(TheDomain, domainLists[3])},
                {DnsblHost(Ip2Backwards, ipLists[11]), DnsblHost(TheDomain, domainLists[1])} },
     silent : { {}, {DnsblHost(Ip2Backwards, ipLists[11])} }]

\* the cache left by earlier analyses
BlCaches ==
    { [k \in {} |-> TRUE],
      (RblKey("ip", DnsblHost(Ip1Backwards, ipLists[2])) :>
          [value |-> [listed |-> TRUE], expiresAt |-> 10 * 60 * 1000]),
      (RblKey("domain", DnsblHost(TheDomain, domainLists[1])) :>
          [value |-> [listed |-> FALSE], expiresAt |-> 10 * 60 * 1000]) }

\* await resolveBlacklists(domain, mx.records)
callResolveBlacklists ==
    /\ fnPc = "called"
    /\ fnResult' = resolveBlacklistsByHost(fnArgs.domain, fnArgs.records, fnArgs.w, fnArgs.c, now)
    /\ fnPc' = "returned"
    /\ UNCHANGED fnArgs
    /\ UNCHANGED nonFnVars

InitSpecBlacklists ==
    /\ ProbeIdle
    /\ CsIdle
    /\ PostIdle
    /\ NetIdle
    /\ CacheIdle
    /\ PoolIdle
    /\ AnIdle
    /\ fnArgs \in [domain : {TheDomain}, records : BlRecords, w : BlWorlds, c : BlCaches]
    /\ fnResult = [k \in {} |-> TRUE]
    /\ fnPc = "called"

SpecBlacklists == InitSpecBlacklists /\ [][callResolveBlacklists]_vars

\* the distinct addresses of the records
DistinctAddresses(records) ==
    {a \in {Ip1, Ip2} : \E k \in 1..Len(records) :
        \E j \in 1..Len(records[k].addresses) : records[k].addresses[j] = a}

\* the octets of an address, last first
Backwards(ip) == <<ip[4], ip[3], ip[2], ip[1]>>

\* whether the query for a host, fresh or cached, returned an A record
ReturnedARecord(type, host) ==
    LET key == <<"rbl", type, host>> IN
    IF key \in DOMAIN fnArgs.c THEN fnArgs.c[key].value.listed
    ELSE host \in fnArgs.w.listed /\ host \notin fnArgs.w.silent

\* C25: blacklists.ips has one key per distinct address of the MX records,
\* each mapped to 11 listings, one per IP list queried as
\* <reversed-octets>.<list>; blacklists.domain has 3 listings queried as
\* <domain>.<list>; a listing is listed iff its query, fresh or cached,
\* returned an A record, and not listed when the query failed or timed out.
C25_BlacklistShape ==
    fnPc = "returned" =>
        /\ DOMAIN fnResult.ips = DistinctAddresses(fnArgs.records)
        /\ \A ip \in DOMAIN fnResult.ips :
              /\ Len(fnResult.ips[ip]) = 11
              /\ \A i \in 1..11 :
                    /\ fnResult.ips[ip][i].list = ipLists[i]
                    /\ fnResult.ips[ip][i].listed = ReturnedARecord("ip", <<Backwards(ip), ipLists[i]>>)
        /\ Len(fnResult.domain) = 3
        /\ \A i \in 1..3 :
              /\ fnResult.domain[i].list = domainLists[i]
              /\ fnResult.domain[i].listed = ReturnedARecord("domain", <<fnArgs.domain, domainLists[i]>>)

\* two hosts share an address: two keys; the eleventh list does not answer
\* for the second address although it lists it, the first domain list does
C25_Witness ==
    /\ fnPc = "returned"
    /\ Len(fnArgs.records) = 2
    /\ DOMAIN fnResult.ips = {Ip1, Ip2}
    /\ fnArgs.w.silent # {}
    /\ DnsblHost(Ip2Backwards, ipLists[11]) \in fnArgs.w.listed
    /\ ~fnResult.ips[Ip2][11].listed
    /\ fnArgs.c = [k \in {} |-> TRUE]
    /\ fnResult.domain[1].listed

(***************************************************************************)
(* Analyses of one process that look a key up through the cache            *)
(***************************************************************************)
MaxAnalyses == 2

\* what a step of an analysis leaves alone (it reads the clock, reads and
\* writes the cache)
nonAnVars == <<probeVars, csVars, postVars, netVars, fnVars, poolVars, cacheLog, cacheRet>>

\* the keys looked up through the cache: `a:${r.exchange}`, `geo:${ip}`,
\* `rbl:ip:${host}`
KeyKinds == {"a", "geo", "rbl"}

KeyOf(kind) ==
    CASE kind = "a" -> "a:mx1"
      [] kind = "geo" -> "geo:192.0.2.1"
      [] kind = "rbl" -> "rbl:ip:1.2.0.192.zen.spamhaus.org"

\* the ttl passed to setCached, in ms
TtlOf(kind) == IF kind = "geo" THEN 60 * 60 * 1000 ELSE 10 * 60 * 1000

\* what the lookup behind a key produces: dnsResolve4Safe gives addresses or
\* [] when it failed, geolocateIp gives fields or {} when it failed,
\* dnsblListed gives listed or not listed, the latter also when it failed
LookupEnds(kind) ==
    CASE kind = "a" -> {[addresses |-> <<"192.0.2.1">>], [addresses |-> <<>>]}
      [] kind = "geo" -> {[country |-> "US"], [k \in {} |-> TRUE]}
      [] kind = "rbl" -> {[listed |-> TRUE], [listed |-> FALSE]}

\* the outcome of a lookup that failed or timed out
FailedEnd(kind) ==
    CASE kind = "a" -> [addresses |-> <<>>]
      [] kind = "geo" -> [k \in {} |-> TRUE]
      [] kind = "rbl" -> [listed |-> FALSE]

\* getCached(key) at time t: what it returns and the map it leaves
Cached(c, key, t) ==
    IF key \notin DOMAIN c THEN [found |-> FALSE, cache |-> c]
    ELSE IF Expired(c[key], t) THEN [found |-> FALSE, cache |-> Without(c, key)]
    ELSE [found |-> TRUE, value |-> c[key].value, cache |-> c]

\* a map that keeps the entry it already has
Stored_KeepFirst(c, key, value, expiresAt) ==
    IF key \in DOMAIN c THEN c ELSE (key :> [value |-> value, expiresAt |-> expiresAt]) @@ c

\* cache.set(key, { value, expiresAt })
Stored(c, key, value, expiresAt) == (key :> [value |-> value, expiresAt |-> expiresAt]) @@ c

\* a test that takes the outcome of a failed lookup for a miss
Missed_EmptyIsMiss(kind, r) == ~r.found \/ r.value = FailedEnd(kind)

\* if (!addresses), if (!geo), if (result === undefined): an array and an
\* object are truthy, so only undefined is a miss
Missed(kind, r) == ~r.found

\* an analysis reaches the key: getCached, and the lookup is issued if it
\* missed
anStarts(a) ==
    /\ analyses[a].pc = "idle"
    /\ LET r == Cached(cache, KeyOf(theKey), now) IN
       /\ cache' = r.cache
       /\ analyses' = [analyses EXCEPT ![a] =
             IF Missed(theKey, r)
             THEN [pc |-> "lookup", queried |-> TRUE, value |-> FailedEnd(theKey)]
             ELSE [pc |-> "done", queried |-> FALSE, value |-> r.value]]
    /\ UNCHANGED <<theKey, produced, writes, now>>
    /\ UNCHANGED nonAnVars

\* the lookup of an analysis ends: setCached(key, value, ttl)
anLookupEnds(a, v) ==
    /\ analyses[a].pc = "lookup"
    /\ cache' = Stored(cache, KeyOf(theKey), v, now + TtlOf(theKey))
    /\ analyses' = [analyses EXCEPT ![a] = [pc |-> "done", queried |-> TRUE, value |-> v]]
    /\ produced' = produced \cup {v}
    /\ writes' = Append(writes, [by |-> a, value |-> v, at |-> now,
                                 expiresAt |-> now + TtlOf(theKey)])
    /\ UNCHANGED <<theKey, now>>
    /\ UNCHANGED nonAnVars

\* ten minutes pass
tenMinutesPass ==
    /\ now < MaxClock * 10 * 60 * 1000
    /\ now' = now + 10 * 60 * 1000
    /\ UNCHANGED <<cache, analyses, theKey, produced, writes>>
    /\ UNCHANGED nonAnVars

InitSpecShared ==
    /\ ProbeIdle /\ CsIdle /\ PostIdle /\ NetIdle /\ FnIdle /\ PoolIdle /\ CacheIdle
    /\ theKey \in KeyKinds
    /\ analyses = [a \in 1..MaxAnalyses |->
                      [pc |-> "idle", queried |-> FALSE, value |-> FailedEnd(theKey)]]
    /\ produced = {}
    /\ writes = <<>>

NextShared ==
    \/ \E a \in 1..MaxAnalyses : anStarts(a)
    \/ \E a \in 1..MaxAnalyses, v \in LookupEnds(theKey) : anLookupEnds(a, v)
    \/ tenMinutesPass

SpecShared == InitSpecShared /\ [][NextShared]_vars

\* the last setCached call made for the key
LastWrite == writes[Len(writes)]

\* C26: two concurrent analyses that look up the same key may both miss,
\* both issue the lookup and both write; after both have written the cache
\* holds the value and the expiry of the later write, every value read from
\* the cache is one that some lookup for the key produced, and neither
\* analysis fails or blocks because of the other.
C26_ConcurrentMisses ==
    /\ KeyOf(theKey) \in DOMAIN cache =>
          /\ writes # <<>>
          /\ cache[KeyOf(theKey)].value = LastWrite.value
          /\ cache[KeyOf(theKey)].expiresAt = LastWrite.expiresAt
    /\ (writes # <<>> /\ now <= LastWrite.expiresAt) => KeyOf(theKey) \in DOMAIN cache
    /\ \A a \in 1..MaxAnalyses :
          /\ (analyses[a].pc = "done" /\ ~analyses[a].queried) => analyses[a].value \in produced
          /\ analyses[a].pc = "idle" => ENABLED anStarts(a)
          /\ analyses[a].pc = "lookup" =>
                \A v \in LookupEnds(theKey) : ENABLED anLookupEnds(a, v)

\* both analyses missed, both looked the key up with different outcomes and
\* both wrote: the cache holds what the second wrote
C26_Witness ==
    /\ Len(writes) = 2
    /\ writes[1].by # writes[2].by
    /\ writes[1].value # writes[2].value
    /\ writes[1].at = writes[2].at
    /\ \A a \in {1, 2} : analyses[a].pc = "done" /\ analyses[a].queried
    /\ cache[KeyOf(theKey)].value = writes[2].value

\* both analyses are looking the same key up at the same time
BothMiss == ~(analyses[1].pc = "lookup" /\ analyses[2].pc = "lookup")

\* the step is the start of an analysis while the ttl of a completed lookup
\* has not elapsed
StartsWithinTtl(a) ==
    /\ analyses[a].pc = "idle"
    /\ analyses'[a].pc # "idle"
    /\ \E i \in 1..Len(writes) : now < writes[i].at + TtlOf(theKey)

\* C30: once an analysis has completed a lookup for a key, a later analysis
\* that starts before the entry's ttl elapses (10, 60, 10 minutes) issues no
\* network query for it and reports the cached outcome, also when the first
\* lookup failed: the empty address list, the empty geolocation or 'not
\* listed' is then what it reports.
C30_ReuseWithinTtl ==
    [][\A a \in 1..MaxAnalyses :
          StartsWithinTtl(a) =>
              /\ ~analyses'[a].queried
              /\ analyses'[a].pc = "done"
              /\ analyses'[a].value = LastWrite.value
              /\ cache' = cache]_vars

\* the first analysis's lookup failed, and the second, started ten minutes
\* later for an address's geolocation, reports the empty outcome unqueried
C30_Witness ==
    /\ theKey = "geo"
    /\ Len(writes) = 1
    /\ writes[1].value = FailedEnd("geo")
    /\ writes[1].at = 0
    /\ now = 10 * 60 * 1000
    /\ \E a \in 1..MaxAnalyses :
          analyses[a].pc = "done" /\ ~analyses[a].queried /\ analyses[a].value = FailedEnd("geo")

\* after the ttl has elapsed the key is looked up again
LookedUpAgain ==
    ~(\E a \in 1..MaxAnalyses :
         analyses[a].pc = "lookup" /\ writes # <<>> /\ KeyOf(theKey) \notin DOMAIN cache)

(***************************************************************************)
(* smtpStarttlsProbe: the order of the commands                            *)
(***************************************************************************)
\* the commands and replies of a plaintext-then-upgrade run, in order; the
\* TLS handshake lies between the fifth and the sixth
PlainRun ==
    <<Recvd(FALSE, "banner"), Sent(FALSE, "EHLO"), Recvd(FALSE, "ehloResp"),
      Sent(FALSE, "STARTTLS"), Recvd(FALSE, "ready"),
      Sent(TRUE, "EHLO"), Recvd(TRUE, "ehlo2"), Sent(TRUE, "MAIL FROM"),
      Recvd(TRUE, "mfrom")>>

\* the commands written so far
Sends(w) == SelectSeq(w, LAMBDA e : e.dir = "send")

\* the flags of a result imply one another
FlagsImply(r) ==
    /\ r.mailFromOk => r.tlsEstablished
    /\ r.tlsEstablished => r.connectOk
    /\ (r.certAuthorized \/ r.secureOk) => r.tlsEstablished

\* the order of the run in every state of a plaintext probe, and the flags
OrderedRun ==
    /\ ~opts.directTls =>
          /\ Len(wire) <= Len(PlainRun)
          /\ wire = SubSeq(PlainRun, 1, Len(wire))
          /\ Len(wire) >= 6 => result.tlsEstablished
    /\ FlagsImply(result)
    /\ resolved.state = "resolved" => FlagsImply(resolved.result)

\* C27: in plaintext-then-upgrade mode the probe writes its commands only in
\* the order EHLO, STARTTLS, (TLS handshake), EHLO, MAIL FROM, each only
\* after the reply of the preceding stage has been matched, and nothing
\* after it has resolved; MAIL FROM is never written before the handshake
\* has completed, so every result satisfies mailFromOk => tlsEstablished =>
\* connectOk and certAuthorized or secureOk => tlsEstablished.
C27_CommandOrder ==
    /\ []OrderedRun
    /\ [][resolved.state = "resolved" => Sends(wire') = Sends(wire)]_vars

\* a plaintext probe has gone through the whole run and resolved
C27_Witness ==
    /\ ~opts.directTls
    /\ wire = PlainRun
    /\ resolved.state = "resolved"
    /\ resolved.result.mailFromOk /\ resolved.result.tlsEstablished

\* a probe resolved by a socket error while it waited for the EHLO reply
ResolvedWhileWaiting ==
    ~(~opts.directTls /\ resolved.state = "resolved" /\ pc = "ehlo1" /\ timer)

(***************************************************************************)
(* smtpStarttlsProbe: the reply to STARTTLS and the chunks of a reply      *)
(***************************************************************************)
\* the probe has written STARTTLS and listens for the reply
AwaitsReady == ~opts.directTls /\ pc = "starttls" /\ timer /\ ~closed

\* C28: after STARTTLS any reply whose line starts with 220, whatever text
\* follows the code and whatever earlier lines are still in the buffer,
\* moves the probe to the TLS handshake on the same socket: no such line is
\* left waiting in the buffer; a reply that does not start with 220 leaves
\* the probe waiting for the timer, with tlsEstablished false.
C28_Any220StartsHandshake ==
    AwaitsReady =>
        /\ ~MatchesAnyLine(buffer, "220")
        /\ ~result.tlsEstablished

\* what does hold: the probe stays only while the buffer does not begin with
\* the one reply line the pattern accepts, and a handshake is started by
\* that line alone
ReadyLineAtBufferStart ==
    /\ AwaitsReady => (~MatchesStarttlsReady(buffer) /\ ~result.tlsEstablished)
    /\ (~opts.directTls /\ pc = "handshake") => wire[Len(wire)] = Recvd(FALSE, "ready")

\* a reply that starts with 220 and reads otherwise is waiting in the buffer
OtherReadyTextWaits == ~(AwaitsReady /\ buffer = <<L220Go>>)

\* C29: starttlsSupported is true iff the complete EHLO reply lists STARTTLS,
\* however the reply is split into chunks: no line of the reply that lists
\* STARTTLS reaches a probe that took it for unsupported; and the chunks of
\* the EHLO reply left over never make the matcher of a later stage miss its
\* own reply: the reply to STARTTLS is not left waiting behind them.
C29_ChunksOfEhloReply ==
    AwaitsReady =>
        /\ HasStarttlsWord(buffer) => result.starttlsSupported
        /\ \A i \in 1..Len(buffer) : buffer[i] # L220Ready

\* what does hold: starttlsSupported is decided by the chunk that first
\* holds a 250 line, and every later chunk of the reply is kept in the
\* buffer of the next stage
FirstChunkDecides ==
    AwaitsReady =>
        /\ result.heloOk
        /\ ~result.starttlsSupported => opts.compelTls
        /\ Len(buffer) <= MaxBuf

\* the rest of the EHLO reply and then the reply to STARTTLS are in the
\* buffer of a probe that waits on
ReadyBehindLeftover == ~(AwaitsReady /\ buffer = <<L250Tls, L250Ok, L220Ready>>)
====
